---- MODULE Spec2Model ----
(***************************************************************************)
(* A model of the scenario filter (spinedb_api/filters/scenario_filter.py), *)
(* of the parameter value codec (spinedb_api/parameter_value.py), of the    *)
(* filter URL tools (spinedb_api/filters/url_tools.py), of forward_sweep    *)
(* (spinedb_api/helpers.py) and of the parameter dimensions of an export    *)
(* mapping (spinedb_api/export_mapping/settings.py).                        *)
(***************************************************************************)
EXTENDS Integers, Sequences, FiniteSets, TLC

VARIABLES
    \* ---- the database behind db_map (never written by the filter) ----
    scenario_alternative_table,  \* rows of table scenario_alternative, by id
    parameter_value_table,       \* rows of table parameter_value, by id
    \* ---- db_map: the four subquery maker hooks ----
    parameter_value_sq_maker,    \* 0: the stock maker, k: partial(..., state=states[k])
    alternative_sq_maker,
    scenario_sq_maker,
    scenario_alternative_sq_maker,
    \* ---- the _ScenarioFilterState objects constructed so far ----
    states,
    \* ---- outcome of the last apply_scenario_filter_to_subqueries call ----
    result,
    \* ---- rows returned by the last query of one of the views now installed ----
    fetched,
    \* ---- the parameter value codec ----
    value_object,     \* the value object a caller holds
    database_value,   \* what to_database(value_object) returned or raised, None before
    decoded_value,    \* what from_database(database_value) returned or raised
    \* ---- the filter URL tools ----
    original_url,     \* the database URL a caller started from
    current_url,      \* the URL the last call returned
    calls,            \* the calls made so far, with the config each was given
    popped,           \* what the last pop_filter_configs returned or raised, None before
    \* ---- the duration and time stamp functions of the codec ----
    conversions,      \* the calls made so far: function, argument, what it returned or raised
    \* ---- forward_sweep(root, func) ----
    tree,             \* the nodes: tree[node] is the parent of node, 0 for the root
    current,          \* local variable current, 0 before the call
    parent,           \* local dict parent: node -> its parent
    children,         \* local dict children: node -> what its iterator has left
    applied,          \* the nodes func was applied to, in the order of the calls
    sweep,            \* where the call is: not called, in the loop, returned, or raised
    \* ---- an export mapping and its parameter dimensions ----
    mappings,         \* the ExportMapping objects made so far, by id; the root is 1
    dimensions        \* the dimensions of the set_parameter_dimensions calls so far

filter_vars == <<scenario_alternative_table, parameter_value_table,
                 parameter_value_sq_maker, alternative_sq_maker, scenario_sq_maker,
                 scenario_alternative_sq_maker, states, result, fetched>>

codec_vars == <<value_object, database_value, decoded_value>>

url_vars == <<original_url, current_url, calls, popped>>

conversion_vars == <<conversions>>

sweep_vars == <<tree, current, parent, children, applied, sweep>>

export_vars == <<mappings, dimensions>>

vars == <<filter_vars, codec_vars, url_vars, conversion_vars, sweep_vars, export_vars>>

-----------------------------------------------------------------------------
(* Bounds of the model.                                                     *)

MaxScenarioAlternatives == 2
MaxParameterValues == 2
MaxInstalls == 2
MaxSteps == 2
MaxEntries == 2
MaxCalls == 3
MaxConversions == 2
MaxStamps == 4
MaxNodes == 5
MaxDimensions == 2
MaxSettings == 3

-----------------------------------------------------------------------------
(* The database.  Tables scenario and alternative are fixed; the rows of    *)
(* scenario_alternative and parameter_value are drawn in Init.              *)

ScenarioTable == {[id |-> 1, name |-> "S1"], [id |-> 2, name |-> "S2"]}

AlternativeTable == {[id |-> 1, name |-> "A1"], [id |-> 2, name |-> "A2"],
                     [id |-> 3, name |-> "A3"]}

\* What a caller may pass as `scenario`: a name (str) or an id (int).
ScenarioArguments ==
    {[is_str |-> TRUE, name |-> n, id |-> 0] : n \in {"S1", "S2", "S3"}}
        \cup {[is_str |-> FALSE, name |-> "", id |-> i] : i \in 1..3}

ScenarioAlternativeRows ==
    [scenario_id : {1, 2}, alternative_id : {1, 2}, rank : {1, 2}]

ParameterValueRows ==
    {[parameter_definition_id |-> p[1], entity_id |-> p[2], alternative_id |-> a] :
        p \in {<<1, 1>>, <<1, 2>>, <<2, 2>>}, a \in {1, 2}}

ScenarioAlternativeCode(r) == (r.scenario_id * 10 + r.alternative_id) * 10 + r.rank

ParameterValueCode(r) ==
    (r.parameter_definition_id * 10 + r.entity_id) * 10 + r.alternative_id

\* Tables are sequences; the row at position i has the primary key i.
WithIds(t) == [i \in 1..Len(t) |-> [id |-> i] @@ t[i]]

ScenarioAlternativeTables ==
    UNION {{WithIds(t) : t \in {u \in [1..n -> ScenarioAlternativeRows] :
                \A i \in 1..n, j \in 1..n :
                    i < j => ScenarioAlternativeCode(u[i]) < ScenarioAlternativeCode(u[j])}} :
           n \in 0..MaxScenarioAlternatives}

ParameterValueTables ==
    UNION {{WithIds(t) : t \in {u \in [1..n -> ParameterValueRows] :
                \A i \in 1..n, j \in 1..n :
                    i < j => ParameterValueCode(u[i]) <= ParameterValueCode(u[j])}} :
           n \in 0..MaxParameterValues}

Range(s) == {s[i] : i \in 1..Len(s)}

-----------------------------------------------------------------------------
(* db_map.  A subquery is named by the maker that built it: 0 is the stock  *)
(* view of the table, k > 0 the view built by the replacement maker bound   *)
(* to states[k].  Reading the property db_map.<name>_sq calls the maker     *)
(* that is installed at that moment.  The parameter value view also joins   *)
(* db_map.scenario_alternative_sq as it is when the maker runs, so it is    *)
(* named by a pair: <<parameter value maker, scenario alternative maker>>.  *)

db_map_scenario_sq == scenario_sq_maker

db_map_alternative_sq == alternative_sq_maker

db_map_scenario_alternative_sq == scenario_alternative_sq_maker

db_map_parameter_value_sq == <<parameter_value_sq_maker, scenario_alternative_sq_maker>>

\* Rows of a scenario view: _make_scenario_filtered_scenario_sq.
RECURSIVE _make_scenario_filtered_scenario_sq(_, _)
_make_scenario_filtered_scenario_sq(st, k) ==
    IF k = 0 THEN ScenarioTable
    ELSE {row \in _make_scenario_filtered_scenario_sq(st, st[k].original_scenario_sq) :
            row.id = st[k].scenario_id}

\* Rows of an alternative view: _make_scenario_filtered_alternative_sq.
RECURSIVE _make_scenario_filtered_alternative_sq(_, _)
_make_scenario_filtered_alternative_sq(st, k) ==
    IF k = 0 THEN AlternativeTable
    ELSE {row \in _make_scenario_filtered_alternative_sq(st, st[k].original_alternative_sq) :
            row.id \in Range(st[k].alternative_ids)}

\* Rows of a scenario alternative view, in row order:
\* _make_scenario_filtered_scenario_alternative_sq.
RECURSIVE _make_scenario_filtered_scenario_alternative_sq(_, _, _)
_make_scenario_filtered_scenario_alternative_sq(tbl, st, k) ==
    IF k = 0 THEN tbl
    ELSE LET in_ids(row) == row.id \in Range(st[k].scenario_alternative_ids)
         IN  SelectSeq(_make_scenario_filtered_scenario_alternative_sq(
                           tbl, st, st[k].original_scenario_alternative_sq), in_ids)

\* The window query with the partitions ordered by ascending rank.
max_rank_row_number_1_ascending(original_rows, scenario_alternative_rows, scenario_id) ==
    LET ext == {j \in original_rows \X scenario_alternative_rows :
                    /\ j[1].alternative_id = j[2].alternative_id
                    /\ j[2].scenario_id = scenario_id}
        partition(j) == <<j[1].parameter_definition_id, j[1].entity_id>>
        partitions == {partition(j) : j \in ext}
        first(p) == {j \in ext : /\ partition(j) = p
                                 /\ \A o \in ext : partition(o) = p => o[2].rank >= j[2].rank}
    IN  {{pick[p][1] : p \in partitions} :
            pick \in {f \in [partitions -> ext] : \A p \in partitions : f[p] \in first(p)}}

\* The window query without the join condition on alternative_id.
max_rank_row_number_1_unjoined(original_rows, scenario_alternative_rows, scenario_id) ==
    LET ext == {j \in original_rows \X scenario_alternative_rows :
                    j[2].scenario_id = scenario_id}
        partition(j) == <<j[1].parameter_definition_id, j[1].entity_id>>
        partitions == {partition(j) : j \in ext}
        first(p) == {j \in ext : /\ partition(j) = p
                                 /\ \A o \in ext : partition(o) = p => o[2].rank <= j[2].rank}
    IN  {{pick[p][1] : p \in partitions} :
            pick \in {f \in [partitions -> ext] : \A p \in partitions : f[p] \in first(p)}}

\* The rows the window query can return: the original parameter value rows
\* are joined to the scenario alternative rows of the scenario, numbered in
\* each (parameter_definition_id, entity_id) partition by descending rank,
\* and the rows numbered 1 are kept.  Rows of equal rank are numbered in an
\* order the database picks, so each such order gives a possible result.
max_rank_row_number_1(original_rows, scenario_alternative_rows, scenario_id) ==
    LET ext == {j \in original_rows \X scenario_alternative_rows :
                    /\ j[1].alternative_id = j[2].alternative_id
                    /\ j[2].scenario_id = scenario_id}
        partition(j) == <<j[1].parameter_definition_id, j[1].entity_id>>
        partitions == {partition(j) : j \in ext}
        first(p) == {j \in ext : /\ partition(j) = p
                                 /\ \A o \in ext : partition(o) = p => o[2].rank <= j[2].rank}
    IN  {{pick[p][1] : p \in partitions} :
            pick \in {f \in [partitions -> ext] : \A p \in partitions : f[p] \in first(p)}}

\* The possible results of a parameter value view:
\* _make_scenario_filtered_parameter_value_sq.
RECURSIVE _make_scenario_filtered_parameter_value_sq(_, _, _, _)
_make_scenario_filtered_parameter_value_sq(pv_tbl, sa_tbl, st, sq) ==
    IF sq[1] = 0 THEN {Range(pv_tbl)}
    ELSE LET state == st[sq[1]]
             sa_rows == Range(_make_scenario_filtered_scenario_alternative_sq(sa_tbl, st, sq[2]))
         IN  UNION {max_rank_row_number_1(original, sa_rows, state.scenario_id) :
                      original \in _make_scenario_filtered_parameter_value_sq(
                                      pv_tbl, sa_tbl, st, state.original_parameter_value_sq)}

-----------------------------------------------------------------------------
(* _ScenarioFilterState.                                                    *)

\* _scenario_id without the existence check of the lookup by id.
_scenario_id_unchecked(scenario) ==
    LET scenario_sq == _make_scenario_filtered_scenario_sq(states, db_map_scenario_sq)
    IN  IF scenario.is_str
        THEN LET ids == {row.id : row \in {r \in scenario_sq : r.name = scenario.name}}
             IN  IF ids = {}
                 THEN [raised |-> "Scenario 'name' not found.", scenario_id |-> 0]
                 ELSE [raised |-> "", scenario_id |-> CHOOSE i \in ids : TRUE]
        ELSE [raised |-> "", scenario_id |-> scenario.id]

\* _ScenarioFilterState._scenario_id: the id of the scenario, or the error
\* raised when db_map.scenario_sq has no such row.
_scenario_id(scenario) ==
    LET scenario_sq == _make_scenario_filtered_scenario_sq(states, db_map_scenario_sq)
    IN  IF scenario.is_str
        THEN LET ids == {row.id : row \in {r \in scenario_sq : r.name = scenario.name}}
             IN  IF ids = {}
                 THEN [raised |-> "Scenario 'name' not found.", scenario_id |-> 0]
                 ELSE [raised |-> "", scenario_id |-> CHOOSE i \in ids : TRUE]
        ELSE IF {r \in scenario_sq : r.id = scenario.id} = {}
             THEN [raised |-> "Scenario id not found.", scenario_id |-> 0]
             ELSE [raised |-> "", scenario_id |-> scenario.id]

\* _scenario_alternative_ids appending row.id to both lists.
_scenario_alternative_ids_row_id_twice(scenario_id) ==
    LET of_scenario(row) == row.scenario_id = scenario_id
        rows == SelectSeq(_make_scenario_filtered_scenario_alternative_sq(
                              scenario_alternative_table, states,
                              db_map_scenario_alternative_sq), of_scenario)
    IN  [scenario_alternative_ids |-> [i \in 1..Len(rows) |-> rows[i].id],
         alternative_ids |-> [i \in 1..Len(rows) |-> rows[i].id]]

\* _ScenarioFilterState._scenario_alternative_ids: the rows of
\* db_map.scenario_alternative_sq of the scenario, in row order.
_scenario_alternative_ids(scenario_id) ==
    LET of_scenario(row) == row.scenario_id = scenario_id
        rows == SelectSeq(_make_scenario_filtered_scenario_alternative_sq(
                              scenario_alternative_table, states,
                              db_map_scenario_alternative_sq), of_scenario)
    IN  [scenario_alternative_ids |-> [i \in 1..Len(rows) |-> rows[i].id],
         alternative_ids |-> [i \in 1..Len(rows) |-> rows[i].alternative_id]]

\* __init__ taking the stock views as the originals, whatever db_map serves.
_ScenarioFilterState_stock(scenario_id) ==
    [original_parameter_value_sq |-> <<0, 0>>,
     original_scenario_sq |-> 0,
     original_scenario_alternative_sq |-> 0,
     original_alternative_sq |-> 0,
     scenario_id |-> scenario_id,
     scenario_alternative_ids |-> _scenario_alternative_ids(scenario_id).scenario_alternative_ids,
     alternative_ids |-> _scenario_alternative_ids(scenario_id).alternative_ids]

\* _ScenarioFilterState.__init__, for a scenario that _scenario_id resolved.
_ScenarioFilterState(scenario_id) ==
    [original_parameter_value_sq |-> db_map_parameter_value_sq,
     original_scenario_sq |-> db_map_scenario_sq,
     original_scenario_alternative_sq |-> db_map_scenario_alternative_sq,
     original_alternative_sq |-> db_map_alternative_sq,
     scenario_id |-> scenario_id,
     scenario_alternative_ids |-> _scenario_alternative_ids(scenario_id).scenario_alternative_ids,
     alternative_ids |-> _scenario_alternative_ids(scenario_id).alternative_ids]

-----------------------------------------------------------------------------
(* Operations.                                                              *)

NoResult == [status |-> "none", message |-> "", scenario |-> [is_str |-> FALSE, name |-> "", id |-> 0]]

NothingFetched == [view |-> "none", rows |-> {}]

None == [class |-> "NoneType"]

UnchangedDatabase == UNCHANGED <<scenario_alternative_table, parameter_value_table>>

UnchangedCodec == UNCHANGED codec_vars

UnchangedUrl == UNCHANGED url_vars

UnchangedConversions == UNCHANGED conversion_vars

UnchangedSweep == UNCHANGED sweep_vars

UnchangedExport == UNCHANGED export_vars

\* forward_sweep was not called.
NothingSwept ==
    /\ tree = <<>>
    /\ current = 0
    /\ parent = <<>>
    /\ children = <<>>
    /\ applied = <<>>
    /\ sweep = [class |-> "frame", at |-> "not called"]

\* No export mapping was built.
NothingExported ==
    /\ mappings = <<>>
    /\ dimensions = <<>>

UnchangedMakers == UNCHANGED <<parameter_value_sq_maker, alternative_sq_maker,
                               scenario_sq_maker, scenario_alternative_sq_maker>>

\* apply_scenario_filter_to_subqueries overriding the parameter value maker
\* before the scenario is looked up.
apply_scenario_filter_to_subqueries_lookup_late(scenario) ==
    /\ Len(states) < MaxInstalls
    /\ LET resolved == _scenario_id(scenario)
           state == _ScenarioFilterState(resolved.scenario_id)
       IN  /\ states' = Append(states, state)
           /\ parameter_value_sq_maker' = Len(states')
           /\ IF resolved.raised # ""
              THEN /\ result' = [status |-> "SpineDBAPIError", message |-> resolved.raised,
                                 scenario |-> scenario]
                   /\ UNCHANGED <<alternative_sq_maker, scenario_sq_maker,
                                  scenario_alternative_sq_maker>>
              ELSE /\ alternative_sq_maker' = Len(states')
                   /\ scenario_sq_maker' = Len(states')
                   /\ scenario_alternative_sq_maker' = Len(states')
                   /\ result' = [status |-> "ok", message |-> "", scenario |-> scenario]
    /\ fetched' = NothingFetched
    /\ UnchangedDatabase
    /\ UnchangedCodec
    /\ UnchangedUrl
    /\ UnchangedConversions
    /\ UnchangedSweep
    /\ UnchangedExport

\* apply_scenario_filter_to_subqueries(db_map, scenario): the state is
\* constructed first; when that raises, the call ends there.
apply_scenario_filter_to_subqueries(scenario) ==
    /\ Len(states) < MaxInstalls
    /\ LET resolved == _scenario_id(scenario)
       IN  IF resolved.raised # ""
           THEN /\ result' = [status |-> "SpineDBAPIError", message |-> resolved.raised,
                              scenario |-> scenario]
                /\ UNCHANGED <<states, fetched>>
                /\ UnchangedMakers
           ELSE /\ states' = Append(states, _ScenarioFilterState(resolved.scenario_id))
                /\ parameter_value_sq_maker' = Len(states')
                /\ alternative_sq_maker' = Len(states')
                /\ scenario_sq_maker' = Len(states')
                /\ scenario_alternative_sq_maker' = Len(states')
                /\ result' = [status |-> "ok", message |-> "", scenario |-> scenario]
                /\ fetched' = NothingFetched
    /\ UnchangedDatabase
    /\ UnchangedCodec
    /\ UnchangedUrl
    /\ UnchangedConversions
    /\ UnchangedSweep
    /\ UnchangedExport

\* A caller queries db_map.parameter_value_sq.
query_parameter_value_sq ==
    /\ \E rows \in _make_scenario_filtered_parameter_value_sq(
                      parameter_value_table, scenario_alternative_table, states,
                      db_map_parameter_value_sq) :
           fetched' = [view |-> "parameter_value", rows |-> rows]
    /\ UNCHANGED <<states, result>>
    /\ UnchangedMakers
    /\ UnchangedDatabase
    /\ UnchangedCodec
    /\ UnchangedUrl
    /\ UnchangedConversions
    /\ UnchangedSweep
    /\ UnchangedExport

\* A caller queries db_map.alternative_sq.
query_alternative_sq ==
    /\ fetched' = [view |-> "alternative",
                   rows |-> _make_scenario_filtered_alternative_sq(states, db_map_alternative_sq)]
    /\ UNCHANGED <<states, result>>
    /\ UnchangedMakers
    /\ UnchangedDatabase
    /\ UnchangedCodec
    /\ UnchangedUrl
    /\ UnchangedConversions
    /\ UnchangedSweep
    /\ UnchangedExport

\* A caller queries db_map.scenario_sq.
query_scenario_sq ==
    /\ fetched' = [view |-> "scenario",
                   rows |-> _make_scenario_filtered_scenario_sq(states, db_map_scenario_sq)]
    /\ UNCHANGED <<states, result>>
    /\ UnchangedMakers
    /\ UnchangedDatabase
    /\ UnchangedCodec
    /\ UnchangedUrl
    /\ UnchangedConversions
    /\ UnchangedSweep
    /\ UnchangedExport

\* query_scenario_alternative_sq with a view maker that reads the ids of
\* the scenario from the table again and stores them in its state.
query_scenario_alternative_sq_refreshing ==
    /\ fetched' = [view |-> "scenario_alternative",
                   rows |-> Range(_make_scenario_filtered_scenario_alternative_sq(
                                      scenario_alternative_table, states,
                                      db_map_scenario_alternative_sq))]
    /\ states' = [k \in 1..Len(states) |->
                     LET rows == SelectSeq(scenario_alternative_table,
                                           LAMBDA row : row.scenario_id = states[k].scenario_id)
                     IN  [states[k] EXCEPT
                             !.scenario_alternative_ids = [i \in 1..Len(rows) |-> rows[i].id],
                             !.alternative_ids = [i \in 1..Len(rows) |-> rows[i].alternative_id]]]
    /\ UNCHANGED result
    /\ UnchangedMakers
    /\ UnchangedDatabase
    /\ UnchangedCodec
    /\ UnchangedUrl
    /\ UnchangedConversions
    /\ UnchangedSweep
    /\ UnchangedExport

\* A caller queries db_map.scenario_alternative_sq.
query_scenario_alternative_sq ==
    /\ fetched' = [view |-> "scenario_alternative",
                   rows |-> Range(_make_scenario_filtered_scenario_alternative_sq(
                                      scenario_alternative_table, states,
                                      db_map_scenario_alternative_sq))]
    /\ UNCHANGED <<states, result>>
    /\ UnchangedMakers
    /\ UnchangedDatabase
    /\ UnchangedCodec
    /\ UnchangedUrl
    /\ UnchangedConversions
    /\ UnchangedSweep
    /\ UnchangedExport

Init ==
    /\ scenario_alternative_table \in ScenarioAlternativeTables
    /\ parameter_value_table \in ParameterValueTables
    /\ parameter_value_sq_maker = 0
    /\ alternative_sq_maker = 0
    /\ scenario_sq_maker = 0
    /\ scenario_alternative_sq_maker = 0
    /\ states = <<>>
    /\ result = NoResult
    /\ fetched = NothingFetched
    /\ value_object = None
    /\ database_value = None
    /\ decoded_value = None
    /\ original_url = <<>>
    /\ current_url = <<>>
    /\ calls = <<>>
    /\ popped = None
    /\ conversions = <<>>
    /\ NothingSwept
    /\ NothingExported

Next ==
    \/ \E scenario \in ScenarioArguments : apply_scenario_filter_to_subqueries(scenario)
    \/ query_parameter_value_sq
    \/ query_alternative_sq
    \/ query_scenario_sq
    \/ query_scenario_alternative_sq

Spec == Init /\ [][Next]_vars

\* A writer, not the filter, adds a row to table scenario_alternative.
insert_scenario_alternative(row) ==
    /\ Len(scenario_alternative_table) < MaxScenarioAlternatives
    /\ \A i \in 1..Len(scenario_alternative_table) :
           \/ scenario_alternative_table[i].scenario_id # row.scenario_id
           \/ scenario_alternative_table[i].alternative_id # row.alternative_id
    /\ scenario_alternative_table' =
           Append(scenario_alternative_table,
                  [id |-> Len(scenario_alternative_table) + 1] @@ row)
    /\ UNCHANGED <<parameter_value_table, states, result, fetched>>
    /\ UnchangedMakers
    /\ UnchangedCodec
    /\ UnchangedUrl
    /\ UnchangedConversions
    /\ UnchangedSweep
    /\ UnchangedExport

\* The filter on a database that is written to while the filter is installed.
WrittenNext ==
    \/ Next
    \/ \E row \in ScenarioAlternativeRows : insert_scenario_alternative(row)

\* The writer starts from a database of at most one row in each table.
WrittenInit ==
    /\ Init
    /\ Len(scenario_alternative_table) <= 1
    /\ Len(parameter_value_table) <= 1

WrittenSpec == WrittenInit /\ [][WrittenNext]_vars

-----------------------------------------------------------------------------
(* Python strings that the codec formats and parses are sequences of        *)
(* one-character strings; a number is written in decimal.                   *)

\* A local name for a value: the body applied to the value.
With(value, Body(_)) == Body(value)

Digits == <<"0", "1", "2", "3", "4", "5", "6", "7", "8", "9">>

IsDigit(c) == \E d \in 1..10 : Digits[d] = c

DigitValue(c) == (CHOOSE d \in 1..10 : Digits[d] = c) - 1

Letters ==
    {"a", "b", "c", "d", "e", "f", "g", "h", "i", "j", "k", "l", "m", "n", "o", "p", "q", "r",
     "s", "t", "u", "v", "w", "x", "y", "z", "A", "B", "C", "D", "E", "F", "G", "H", "I", "J",
     "K", "L", "M", "N", "O", "P", "Q", "R", "S", "T", "U", "V", "W", "X", "Y", "Z"}

IsLetter(c) == c \in Letters

IsSpace(c) == c = " "

RECURSIVE NaturalToString(_)
NaturalToString(n) ==
    IF n < 10 THEN <<Digits[n + 1]>>
    ELSE NaturalToString(n \div 10) \o <<Digits[(n % 10) + 1]>>

\* "{}".format(n) for an int n.
IntToString(n) == IF n < 0 THEN <<"-">> \o NaturalToString(-n) ELSE NaturalToString(n)

RECURSIVE DigitsToNatural(_)
DigitsToNatural(chars) ==
    IF chars = <<>> THEN 0
    ELSE 10 * DigitsToNatural(SubSeq(chars, 1, Len(chars) - 1)) + DigitValue(chars[Len(chars)])

\* int(text): the value, or a ValueError; text is an optional sign and digits.
IsIntLiteral(chars) ==
    LET body == IF chars # <<>> /\ chars[1] \in {"-", "+"} THEN Tail(chars) ELSE chars
    IN  body # <<>> /\ \A i \in 1..Len(body) : IsDigit(body[i])

ParseInt(chars) ==
    IF chars[1] = "-" THEN -DigitsToNatural(Tail(chars))
    ELSE IF chars[1] = "+" THEN DigitsToNatural(Tail(chars))
    ELSE DigitsToNatural(chars)

-----------------------------------------------------------------------------
(* dateutil.relativedelta.relativedelta: the relative fields, normalised by *)
(* the constructor as relativedelta._fix does.                              *)

Sign(n) == IF n < 0 THEN -1 ELSE 1

Abs(n) == IF n < 0 THEN -n ELSE n

\* Carry the part of `low` beyond `limit` into the next larger field.
CarryRest(low, base) == Sign(low) * ((Abs(low)) % base)

CarryOver(low, base) == Sign(low) * ((Abs(low)) \div base)

\* relativedelta(...) keeping the fields as they are given.
relativedelta_as_given(years, months, days, hours, minutes, seconds) ==
    [class |-> "relativedelta", years |-> years, months |-> months, days |-> days,
     hours |-> hours, minutes |-> minutes, seconds |-> seconds]

relativedelta(years, months, days, hours, minutes, seconds) ==
    LET s == IF Abs(seconds) > 59 THEN CarryRest(seconds, 60) ELSE seconds
        m0 == IF Abs(seconds) > 59 THEN minutes + CarryOver(seconds, 60) ELSE minutes
        m == IF Abs(m0) > 59 THEN CarryRest(m0, 60) ELSE m0
        h0 == IF Abs(m0) > 59 THEN hours + CarryOver(m0, 60) ELSE hours
        h == IF Abs(h0) > 23 THEN CarryRest(h0, 24) ELSE h0
        d == IF Abs(h0) > 23 THEN days + CarryOver(h0, 24) ELSE days
        mo == IF Abs(months) > 11 THEN CarryRest(months, 12) ELSE months
        y == IF Abs(months) > 11 THEN years + CarryOver(months, 12) ELSE years
    IN  [class |-> "relativedelta", years |-> y, months |-> mo, days |-> d, hours |-> h,
         minutes |-> m, seconds |-> s]

ParameterValueFormatError(message) ==
    [class |-> "raised", exception |-> "ParameterValueFormatError", message |-> message]

RuntimeError(message) == [class |-> "raised", exception |-> "RuntimeError", message |-> message]

TypeError(message) == [class |-> "raised", exception |-> "TypeError", message |-> message]

IsRaised(x) == x.class = "raised"

\* re.split("\\s|([a-z]|[A-Z])", duration, maxsplit=1): the position of the
\* first white space or letter, 0 when there is none.
RECURSIVE FirstSplit(_, _)
FirstSplit(chars, i) ==
    IF i > Len(chars) THEN 0
    ELSE IF IsSpace(chars[i]) \/ IsLetter(chars[i]) THEN i
    ELSE FirstSplit(chars, i + 1)

\* A str object whose characters the codec formats or parses.
Str(chars) == [class |-> "str", chars |-> chars]

\* duration_to_relativedelta(duration).
duration_to_relativedelta(duration) ==
    LET text == duration.chars
        at == FirstSplit(text, 1)
        count == SubSeq(text, 1, at - 1)
        abbreviation == IF IsLetter(text[at]) THEN <<text[at]>> ELSE <<>>
        full_unit == SubSeq(text, at + 1, Len(text))
        unit == IF abbreviation # <<>> THEN abbreviation ELSE full_unit
        n == ParseInt(count)
    IN  IF at = 0 \/ ~IsIntLiteral(count)
        THEN ParameterValueFormatError("Could not parse duration")
        ELSE IF unit \in {<<"s">>, <<"s", "e", "c", "o", "n", "d">>,
                          <<"s", "e", "c", "o", "n", "d", "s">>}
             THEN relativedelta(0, 0, 0, 0, 0, n)
        ELSE IF unit \in {<<"m">>, <<"m", "i", "n", "u", "t", "e">>,
                          <<"m", "i", "n", "u", "t", "e", "s">>}
             THEN relativedelta(0, 0, 0, 0, n, 0)
        ELSE IF unit \in {<<"h">>, <<"h", "o", "u", "r">>, <<"h", "o", "u", "r", "s">>}
             THEN relativedelta(0, 0, 0, n, 0, 0)
        ELSE IF unit \in {<<"D">>, <<"d", "a", "y">>, <<"d", "a", "y", "s">>}
             THEN relativedelta(0, 0, n, 0, 0, 0)
        ELSE IF unit \in {<<"M">>, <<"m", "o", "n", "t", "h">>, <<"m", "o", "n", "t", "h", "s">>}
             THEN relativedelta(0, n, 0, 0, 0, 0)
        ELSE IF unit \in {<<"Y">>, <<"y", "e", "a", "r">>, <<"y", "e", "a", "r", "s">>}
             THEN relativedelta(n, 0, 0, 0, 0, 0)
        ELSE ParameterValueFormatError("Could not parse duration")

\* relativedelta_to_duration(delta).
relativedelta_to_duration(delta) ==
    IF delta.seconds > 0
    THEN Str(IntToString(delta.seconds + 60 * delta.minutes + 60 * 60 * delta.hours
                         + 60 * 60 * 24 * delta.days) \o <<"s">>)
    ELSE IF delta.minutes > 0
    THEN Str(IntToString(delta.minutes + 60 * delta.hours + 60 * 24 * delta.days) \o <<"m">>)
    ELSE IF delta.hours > 0
    THEN Str(IntToString(delta.hours + 24 * delta.days) \o <<"h">>)
    ELSE IF delta.days > 0
    THEN Str(IntToString(delta.days) \o <<"D">>)
    ELSE IF delta.months > 0
    THEN Str(IntToString(delta.months + 12 * delta.years) \o <<"M">>)
    ELSE IF delta.years > 0
    THEN Str(IntToString(delta.years) \o <<"Y">>)
    ELSE ParameterValueFormatError("Zero relativedelta")

-----------------------------------------------------------------------------
(* datetime.datetime, its ISO text and dateutil.parser.parse.  The text of  *)
(* a timestamp is kept as its parts: date, separator, time, the fraction    *)
(* when it is written and the UTC offset when it is written.                *)

datetime(date, time, microsecond, aware, utcoffset) ==
    [class |-> "datetime", date |-> date, time |-> time, microsecond |-> microsecond,
     aware |-> aware, utcoffset |-> utcoffset]

\* datetime.isoformat(sep); str(datetime) is isoformat(" ").
isoformat(stamp, sep) ==
    [class |-> "str",
     iso |-> [date |-> stamp.date, sep |-> sep, time |-> stamp.time,
              fraction |-> IF stamp.microsecond = 0 THEN <<>> ELSE <<stamp.microsecond>>,
              offset |-> IF stamp.aware THEN <<stamp.utcoffset>> ELSE <<>>]]

\* dateutil.parser.parse(text): the separator is skipped, a missing
\* fraction is 0 microseconds, an offset gives an aware datetime.
dateutil_parser_parse(text) ==
    IF text.class # "str"
    THEN [class |-> "raised", exception |-> "TypeError",
          message |-> "Parser must be a string or character stream"]
    ELSE IF "iso" \in DOMAIN text
    THEN datetime(text.iso.date, text.iso.time,
                  IF text.iso.fraction = <<>> THEN 0 ELSE text.iso.fraction[1],
                  text.iso.offset # <<>>,
                  IF text.iso.offset = <<>> THEN 0 ELSE text.iso.offset[1])
    ELSE [class |-> "raised", exception |-> "ValueError", message |-> "Unknown string format"]

\* Days before the year, datetime.date.toordinal.
DaysBeforeYear(y) == (y - 1) * 365 + (y - 1) \div 4 - (y - 1) \div 100 + (y - 1) \div 400

IsLeap(y) == y % 4 = 0 /\ (y % 100 # 0 \/ y % 400 = 0)

DaysInMonth(y, m) ==
    IF m = 2 THEN (IF IsLeap(y) THEN 29 ELSE 28)
    ELSE IF m \in {4, 6, 9, 11} THEN 30 ELSE 31

RECURSIVE DaysBeforeMonth(_, _)
DaysBeforeMonth(y, m) ==
    IF m = 1 THEN 0 ELSE DaysBeforeMonth(y, m - 1) + DaysInMonth(y, m - 1)

\* The minute of a datetime on the UTC time line (utcoffset is in minutes);
\* the seconds and microseconds are not moved by the offset.
UtcMinutes(stamp) ==
    (DaysBeforeYear(stamp.date[1]) + DaysBeforeMonth(stamp.date[1], stamp.date[2])
        + stamp.date[3]) * 1440
    + stamp.time[1] * 60 + stamp.time[2] - stamp.utcoffset

\* datetime.__eq__: a naive and an aware datetime are never equal, naive
\* ones compare by their fields, aware ones by their UTC instant.
datetime_eq(a, b) ==
    IF a.aware # b.aware THEN FALSE
    ELSE IF ~a.aware THEN a.date = b.date /\ a.time = b.time /\ a.microsecond = b.microsecond
    ELSE /\ UtcMinutes(a) = UtcMinutes(b)
         /\ a.time[3] = b.time[3]
         /\ a.microsecond = b.microsecond

\* numpy.datetime64 with seconds precision, as the codec holds stamps.
datetime64(date, time) == [class |-> "datetime64", date |-> date, time |-> time]

\* str(numpy.datetime64): ISO text with "T", no fraction, no offset.
datetime64_str(stamp) ==
    [class |-> "str",
     iso |-> [date |-> stamp.date, sep |-> "T", time |-> stamp.time,
              fraction |-> <<>>, offset |-> <<>>]]

\* numpy.datetime64(datetime) for a naive datetime, compared in seconds.
np_datetime64(stamp) == datetime64(stamp.date, stamp.time)

-----------------------------------------------------------------------------
(* The objects json.dumps writes and json.loads returns.  A dict keeps its  *)
(* items in insertion order; the database value is the JSON text of such an *)
(* object, kept as the object.                                              *)

Text(t) == [class |-> "str", text |-> t]

PyInt(n) == [class |-> "int", n |-> n]

PyFloat(n) == [class |-> "float", n |-> n]

PyBool(b) == [class |-> "bool", b |-> b]

PyList(items) == [class |-> "list", items |-> items]

EmptyDict == [class |-> "dict", items |-> <<>>]

dict_has(d, key) == \E i \in 1..Len(d.items) : d.items[i][1] = key

dict_get(d, key) == d.items[CHOOSE i \in 1..Len(d.items) : d.items[i][1] = key][2]

\* d[key] = value: a key the dict has keeps its place and takes the value.
dict_set(d, key, value) ==
    IF dict_has(d, key)
    THEN [d EXCEPT !.items = [i \in 1..Len(d.items) |->
                                 IF d.items[i][1] = key THEN <<key, value>> ELSE d.items[i]]]
    ELSE [d EXCEPT !.items = Append(d.items, <<key, value>>)]

\* dict() filled by d[key] = value for the pairs in order.
RECURSIVE dict_of(_)
dict_of(pairs) ==
    IF pairs = <<>> THEN EmptyDict
    ELSE dict_set(dict_of(SubSeq(pairs, 1, Len(pairs) - 1)),
                  pairs[Len(pairs)][1], pairs[Len(pairs)][2])

KeyError(key) == [class |-> "raised", exception |-> "KeyError", message |-> key]

\* The first raised exception among the elements, in order.
HasRaised(items) == \E i \in 1..Len(items) : IsRaised(items[i])

FirstRaised(items) ==
    items[CHOOSE i \in 1..Len(items) :
             IsRaised(items[i]) /\ \A j \in 1..(i - 1) : ~IsRaised(items[j])]

\* numpy.ndarray of numbers.
ndarray(dtype, items) == [class |-> "ndarray", dtype |-> dtype, items |-> items]

\* numpy.all(a == b) for two arrays of numbers: an array of one element is
\* broadcast, arrays of other unequal lengths do not compare equal.
np_all_eq(a, b) ==
    IF Len(a.items) = Len(b.items) THEN \A i \in 1..Len(a.items) : a.items[i] = b.items[i]
    ELSE IF Len(a.items) = 1 THEN \A i \in 1..Len(b.items) : b.items[i] = a.items[1]
    ELSE IF Len(b.items) = 1 THEN \A i \in 1..Len(a.items) : a.items[i] = b.items[1]
    ELSE FALSE

-----------------------------------------------------------------------------
(* The value classes of parameter_value.py.                                 *)

\* DateTime.__init__.
DateTime(value) ==
    [class |-> "DateTime",
     value |-> IF value.class = "str" THEN dateutil_parser_parse(value) ELSE value]

\* Duration.__init__ for a str, a relativedelta or a list of them.
Duration(value) ==
    LET steps == IF value.class = "str" THEN <<duration_to_relativedelta(value)>>
                 ELSE IF value.class = "relativedelta" THEN <<value>>
                 ELSE IF value.class # "list"
                 THEN <<TypeError("object is not iterable")>>
                 ELSE [i \in 1..Len(value.items) |->
                          IF value.items[i].class = "str"
                          THEN duration_to_relativedelta(value.items[i])
                          ELSE value.items[i]]
    IN  IF HasRaised(steps) THEN FirstRaised(steps)
        ELSE [class |-> "Duration", value |-> steps]

\* TimePattern.__init__.
TimePattern(indexes, values) ==
    IF Len(indexes) # Len(values.items)
    THEN RuntimeError("Length of values does not match length of indexes")
    ELSE IF indexes = <<>> THEN RuntimeError("Empty time pattern not allowed")
    ELSE [class |-> "TimePattern", indexes |-> indexes, values |-> values]

\* TimeSeriesFixedResolution.__init__ with the start and resolution setters.
TimeSeriesFixedResolution(start, resolution, values, ignore_year, repeat) ==
    LET steps == IF resolution.class = "str" THEN <<duration_to_relativedelta(resolution)>>
                 ELSE IF resolution.class # "list" THEN <<resolution>>
                 ELSE [i \in 1..Len(resolution.items) |->
                          IF resolution.items[i].class = "str"
                          THEN duration_to_relativedelta(resolution.items[i])
                          ELSE resolution.items[i]]
    IN  IF Len(values.items) < 2
        THEN RuntimeError("Time series too short. Must have two or more values")
        ELSE IF HasRaised(steps) THEN FirstRaised(steps)
        ELSE [class |-> "TimeSeriesFixedResolution",
              start |-> IF start.class = "str" THEN dateutil_parser_parse(start) ELSE start,
              resolution |-> steps, values |-> values,
              ignore_year |-> ignore_year, repeat |-> repeat]

\* TimeSeriesVariableResolution.__init__.
TimeSeriesVariableResolution(indexes, values, ignore_year, repeat) ==
    IF Len(values.items) < 2
    THEN RuntimeError("Time series too short. Must have two or more values")
    ELSE IF Len(indexes) # Len(values.items)
    THEN RuntimeError("Length of values does not match length of indexes")
    ELSE [class |-> "TimeSeriesVariableResolution", indexes |-> indexes, values |-> values,
          ignore_year |-> ignore_year, repeat |-> repeat]

\* __eq__ of the value classes.
value_eq(a, b) ==
    IF a.class # b.class THEN FALSE
    ELSE IF a.class = "DateTime"
         THEN (IF a.value.class = "datetime" /\ b.value.class = "datetime"
               THEN datetime_eq(a.value, b.value)
               ELSE IF a.value.class = "DateTime" /\ b.value.class = "DateTime"
               THEN datetime_eq(a.value.value, b.value.value)
               ELSE FALSE)
    ELSE IF a.class = "Duration" THEN a.value = b.value
    ELSE IF a.class = "TimePattern"
         THEN a.indexes = b.indexes /\ np_all_eq(a.values, b.values)
    ELSE IF a.class = "TimeSeriesFixedResolution"
         THEN /\ datetime_eq(a.start, b.start)
              /\ a.resolution = b.resolution
              /\ np_all_eq(a.values, b.values)
              /\ a.ignore_year = b.ignore_year
              /\ a.repeat = b.repeat
    ELSE IF a.class = "TimeSeriesVariableResolution"
         THEN /\ Len(a.indexes) = Len(b.indexes)
              /\ \A i \in 1..Len(a.indexes) : a.indexes[i] = b.indexes[i]
              /\ np_all_eq(a.values, b.values)
              /\ a.ignore_year = b.ignore_year
              /\ a.repeat = b.repeat
    ELSE FALSE

-----------------------------------------------------------------------------
(* to_database.                                                             *)

\* DateTime.to_database.
DateTime_to_database(self) ==
    dict_of(<< <<"type", Text("date_time")>>, <<"data", isoformat(self.value, "T")>> >>)

\* Duration.to_database.
Duration_to_database(self) ==
    LET durations == [i \in 1..Len(self.value) |-> relativedelta_to_duration(self.value[i])]
    IN  IF HasRaised(durations) THEN FirstRaised(durations)
        ELSE dict_of(<< <<"type", Text("duration")>>,
                        <<"data", IF Len(self.value) = 1 THEN durations[1]
                                  ELSE PyList(durations)>> >>)

\* TimePattern.to_database: json.dumps cannot write a numpy integer.
TimePattern_to_database(self) ==
    LET n == IF Len(self.indexes) < Len(self.values.items) THEN Len(self.indexes)
             ELSE Len(self.values.items)
        data == dict_of([i \in 1..n |-> <<self.indexes[i], PyFloat(self.values.items[i])>>])
    IN  IF self.values.dtype # "float64"
        THEN TypeError("Object of type int64 is not JSON serializable")
        ELSE dict_of(<< <<"type", Text("time_pattern")>>, <<"data", data>> >>)

\* ndarray.tolist().
tolist(values) ==
    PyList([i \in 1..Len(values.items) |->
               IF values.dtype = "float64" THEN PyFloat(values.items[i])
               ELSE PyInt(values.items[i])])

\* TimeSeriesFixedResolution.to_database.
TimeSeriesFixedResolution_to_database(self) ==
    LET durations == [i \in 1..Len(self.resolution) |->
                         relativedelta_to_duration(self.resolution[i])]
        resolution_as_json == IF Len(self.resolution) > 1 THEN PyList(durations)
                              ELSE durations[1]
    IN  IF HasRaised(durations) THEN FirstRaised(durations)
        ELSE dict_of(<< <<"type", Text("time_series")>>,
                        <<"index", dict_of(<< <<"start", isoformat(self.start, " ")>>,
                                              <<"resolution", resolution_as_json>>,
                                              <<"ignore_year", PyBool(self.ignore_year)>>,
                                              <<"repeat", PyBool(self.repeat)>> >>)>>,
                        <<"data", tolist(self.values)>> >>)

\* TimeSeriesVariableResolution.to_database writing both flags whatever
\* their values, as TimeSeriesFixedResolution.to_database does.
TimeSeriesVariableResolution_to_database_both_flags(self) ==
    LET n == IF Len(self.indexes) < Len(self.values.items) THEN Len(self.indexes)
             ELSE Len(self.values.items)
        data == dict_of([i \in 1..n |->
                            <<datetime64_str(self.indexes[i]), PyFloat(self.values.items[i])>>])
    IN  dict_of(<< <<"type", Text("time_series")>>, <<"data", data>>,
                   <<"index", dict_of(<< <<"ignore_year", PyBool(self.ignore_year)>>,
                                         <<"repeat", PyBool(self.repeat)>> >>)>> >>)

\* TimeSeriesVariableResolution.to_database.
TimeSeriesVariableResolution_to_database(self) ==
    LET n == IF Len(self.indexes) < Len(self.values.items) THEN Len(self.indexes)
             ELSE Len(self.values.items)
        data == dict_of([i \in 1..n |->
                            <<datetime64_str(self.indexes[i]), PyFloat(self.values.items[i])>>])
        with_data == dict_of(<< <<"type", Text("time_series")>>, <<"data", data>> >>)
        with_ignore_year ==
            IF self.ignore_year
            THEN dict_set(with_data, "index",
                          dict_set(EmptyDict, "ignore_year", PyBool(self.ignore_year)))
            ELSE with_data
        with_repeat ==
            IF self.repeat
            THEN dict_set(with_ignore_year, "index",
                          dict_set(IF dict_has(with_ignore_year, "index")
                                   THEN dict_get(with_ignore_year, "index") ELSE EmptyDict,
                                   "repeat", PyBool(self.repeat)))
            ELSE with_ignore_year
    IN  with_repeat

\* to_database(value) for an object of a value class.
to_database(value) ==
    IF value.class = "DateTime" THEN DateTime_to_database(value)
    ELSE IF value.class = "Duration" THEN Duration_to_database(value)
    ELSE IF value.class = "TimePattern" THEN TimePattern_to_database(value)
    ELSE IF value.class = "TimeSeriesFixedResolution"
         THEN TimeSeriesFixedResolution_to_database(value)
    ELSE IF value.class = "TimeSeriesVariableResolution"
         THEN TimeSeriesVariableResolution_to_database(value)
    ELSE value

-----------------------------------------------------------------------------
(* from_database.                                                           *)

_TIME_SERIES_DEFAULT_START ==
    [class |-> "str",
     iso |-> [date |-> <<1, 1, 1>>, sep |-> "T", time |-> <<0, 0, 0>>,
              fraction |-> <<>>, offset |-> <<>>]]

_TIME_SERIES_DEFAULT_RESOLUTION == Str(<<"1", "h">>)

_TIME_SERIES_PLAIN_INDEX_UNIT == <<"m">>

\* bool(x) for a JSON value.
py_bool(x) ==
    IF x.class = "bool" THEN x.b
    ELSE IF x.class \in {"int", "float"} THEN x.n # 0
    ELSE IF x.class \in {"list", "dict"} THEN x.items # <<>>
    ELSE IF x.class = "str" THEN ("chars" \notin DOMAIN x) \/ x.chars # <<>>
    ELSE FALSE

\* "{}".format(x) or str(x) for a JSON number or bool.
py_str(x) ==
    IF x.class = "int" THEN IntToString(x.n)
    ELSE IF x.class = "float" THEN IntToString(x.n) \o <<".", "0">>
    ELSE IF x.class = "bool" THEN (IF x.b THEN <<"T", "r", "u", "e">>
                                   ELSE <<"F", "a", "l", "s", "e">>)
    ELSE <<"N", "o", "n", "e">>

\* A duration given as a str, or a number that takes the default unit.
WithDefaultUnit(v) ==
    IF v.class = "str" THEN v ELSE Str(py_str(v) \o _TIME_SERIES_PLAIN_INDEX_UNIT)

\* numpy.array(list of numbers).
np_array(list) ==
    ndarray(IF \E i \in 1..Len(list.items) : list.items[i].class = "float"
            THEN "float64" ELSE "int64",
            [i \in 1..Len(list.items) |-> list.items[i].n])

\* _break_dictionary(data).
_break_dictionary(data) ==
    [indexes |-> [i \in 1..Len(data.items) |-> data.items[i][1]],
     values |-> ndarray("float64", [i \in 1..Len(data.items) |-> data.items[i][2].n])]

\* try: ... except ValueError: raise error.  Another exception goes through.
ExceptValueError(returned, error) ==
    IF IsRaised(returned) /\ returned.exception = "ValueError" THEN error ELSE returned

\* _datetime_from_database(value).
_datetime_from_database(value) ==
    LET stamp == ExceptValueError(dateutil_parser_parse(value),
                                  ParameterValueFormatError("Could not parse datetime"))
    IN  IF IsRaised(stamp) THEN stamp ELSE DateTime(stamp)

\* _duration_from_database(value).
_duration_from_database(value) ==
    IF value.class \in {"str", "int", "bool"}
    THEN Duration(PyList(<<duration_to_relativedelta(WithDefaultUnit(value))>>))
    ELSE IF value.class = "list"
    THEN Duration(PyList([i \in 1..Len(value.items) |->
                             duration_to_relativedelta(WithDefaultUnit(value.items[i]))]))
    ELSE ParameterValueFormatError("Duration value is of unsupported type")

\* _variable_resolution_time_series_info_from_index(value).
_variable_resolution_time_series_info_from_index(value) ==
    IF dict_has(value, "index")
    THEN LET data_index == dict_get(value, "index")
         IN  [ignore_year |-> IF dict_has(data_index, "ignore_year")
                              THEN py_bool(dict_get(data_index, "ignore_year")) ELSE FALSE,
              repeat |-> IF dict_has(data_index, "repeat")
                         THEN py_bool(dict_get(data_index, "repeat")) ELSE FALSE]
    ELSE [ignore_year |-> FALSE, repeat |-> FALSE]

\* _time_series_from_dictionary(value).
_time_series_from_dictionary(value) ==
    LET data == dict_get(value, "data")
        parsed == [i \in 1..Len(data.items) |->
                      ExceptValueError(dateutil_parser_parse(data.items[i][1]),
                                       ParameterValueFormatError("Could not decode time stamp"))]
        stamps == [i \in 1..Len(data.items) |-> np_datetime64(parsed[i])]
        values == ndarray("float64", [i \in 1..Len(data.items) |-> data.items[i][2].n])
        info == _variable_resolution_time_series_info_from_index(value)
    IN  IF HasRaised(parsed) THEN FirstRaised(parsed)
        ELSE TimeSeriesVariableResolution(stamps, values, info.ignore_year, info.repeat)

\* _time_series_from_single_column taking a flag that is not given as false.
_time_series_from_single_column_flags_false(value) ==
    LET has_index == dict_has(value, "index")
        value_index == dict_get(value, "index")
        has(key) == has_index /\ dict_has(value_index, key)
        start == IF has("start") THEN dict_get(value_index, "start")
                 ELSE _TIME_SERIES_DEFAULT_START
        resolution == IF has("resolution") THEN dict_get(value_index, "resolution")
                      ELSE _TIME_SERIES_DEFAULT_RESOLUTION
        ignore_year == IF has("ignore_year") THEN py_bool(dict_get(value_index, "ignore_year"))
                       ELSE FALSE
        repeat == IF has("repeat") THEN py_bool(dict_get(value_index, "repeat"))
                  ELSE FALSE
        as_list == IF resolution.class # "list" THEN <<resolution>> ELSE resolution.items
        relativedeltas == [i \in 1..Len(as_list) |->
                              duration_to_relativedelta(WithDefaultUnit(as_list[i]))]
        parsed_start == ExceptValueError(dateutil_parser_parse(start),
                                         ParameterValueFormatError("Could not decode start value"))
    IN  IF HasRaised(relativedeltas) THEN FirstRaised(relativedeltas)
        ELSE IF IsRaised(parsed_start) THEN parsed_start
        ELSE IF ~dict_has(value, "data") THEN KeyError("data")
        ELSE TimeSeriesFixedResolution(parsed_start, PyList(relativedeltas),
                                       np_array(dict_get(value, "data")), ignore_year, repeat)

\* _time_series_from_single_column(value).
_time_series_from_single_column(value) ==
    LET has_index == dict_has(value, "index")
        value_index == dict_get(value, "index")
        has(key) == has_index /\ dict_has(value_index, key)
        start == IF has("start") THEN dict_get(value_index, "start")
                 ELSE _TIME_SERIES_DEFAULT_START
        resolution == IF has("resolution") THEN dict_get(value_index, "resolution")
                      ELSE _TIME_SERIES_DEFAULT_RESOLUTION
        ignore_year == IF has("ignore_year") THEN py_bool(dict_get(value_index, "ignore_year"))
                       ELSE ~has("start")
        repeat == IF has("repeat") THEN py_bool(dict_get(value_index, "repeat"))
                  ELSE ~has("start")
        as_list == IF resolution.class # "list" THEN <<resolution>> ELSE resolution.items
        relativedeltas == [i \in 1..Len(as_list) |->
                              duration_to_relativedelta(WithDefaultUnit(as_list[i]))]
        parsed_start == ExceptValueError(dateutil_parser_parse(start),
                                         ParameterValueFormatError("Could not decode start value"))
    IN  IF HasRaised(relativedeltas) THEN FirstRaised(relativedeltas)
        ELSE IF IsRaised(parsed_start) THEN parsed_start
        ELSE IF ~dict_has(value, "data") THEN KeyError("data")
        ELSE TimeSeriesFixedResolution(parsed_start, PyList(relativedeltas),
                                       np_array(dict_get(value, "data")), ignore_year, repeat)

\* _time_series_from_two_columns(value).
_time_series_from_two_columns(value) ==
    LET data == dict_get(value, "data")
        well_formed(i) == data.items[i].class = "list" /\ Len(data.items[i].items) = 2
        parsed == [i \in 1..Len(data.items) |->
                      IF well_formed(i) THEN dateutil_parser_parse(data.items[i].items[1])
                      ELSE ParameterValueFormatError("Invalid value in time series array")]
        decoded == [i \in 1..Len(data.items) |->
                       ExceptValueError(parsed[i],
                                        ParameterValueFormatError("Could not decode time stamp"))]
        stamps == [i \in 1..Len(data.items) |-> np_datetime64(decoded[i])]
        values == ndarray("float64", [i \in 1..Len(data.items) |-> data.items[i].items[2].n])
        info == _variable_resolution_time_series_info_from_index(value)
    IN  IF HasRaised(decoded) THEN FirstRaised(decoded)
        ELSE TimeSeriesVariableResolution(stamps, values, info.ignore_year, info.repeat)

\* _time_series_from_database(value).
_time_series_from_database(value) ==
    IF ~dict_has(value, "data") THEN KeyError("data")
    ELSE LET data == dict_get(value, "data")
         IN  IF data.class = "dict" THEN _time_series_from_dictionary(value)
             ELSE IF data.class = "list"
             THEN IF data.items = <<>>
                  THEN [class |-> "raised", exception |-> "IndexError",
                        message |-> "list index out of range"]
                  ELSE IF data.items[1].class \in {"list", "str"}
                  THEN _time_series_from_two_columns(value)
                  ELSE _time_series_from_single_column(value)
             ELSE ParameterValueFormatError("Unrecognized time series format")

\* _time_pattern_from_database(value).
_time_pattern_from_database(value) ==
    IF ~dict_has(value, "data") THEN KeyError("data")
    ELSE LET broken == _break_dictionary(dict_get(value, "data"))
         IN  TimePattern(broken.indexes, broken.values)

\* A ParameterValueFormatError whose message is made with format(name).
ParameterValueFormatErrorNaming(message, name) ==
    [class |-> "raised", exception |-> "ParameterValueFormatError", message |-> message,
     names |-> name]

\* A database value that is not the text of a JSON document.
NotJson(chars) == [class |-> "not json", chars |-> chars]

\* json.loads(database_value).
json_loads(text) ==
    IF text.class = "not json"
    THEN [class |-> "raised", exception |-> "JSONDecodeError", message |-> "Expecting value"]
    ELSE text

\* from_database falling back to the decoded JSON object when it cannot
\* make a value of it.
from_database_lenient(text) ==
    LET value == json_loads(text)
    IN  IF IsRaised(value) THEN ParameterValueFormatError("Could not decode the value")
        ELSE IF value.class = "dict" /\ dict_has(value, "type") /\ dict_has(value, "data")
        THEN (IF dict_get(value, "type") = Text("date_time")
              THEN _datetime_from_database(dict_get(value, "data"))
              ELSE IF dict_get(value, "type") = Text("duration")
              THEN _duration_from_database(dict_get(value, "data"))
              ELSE IF dict_get(value, "type") = Text("time_pattern")
              THEN _time_pattern_from_database(value)
              ELSE IF dict_get(value, "type") = Text("time_series")
              THEN _time_series_from_database(value)
              ELSE value)
        ELSE value

\* from_database(database_value) for the text of a JSON document.
from_database(text) ==
    LET value == json_loads(text)
        value_type == dict_get(value, "type")
        returned ==
            IF ~dict_has(value, "type") THEN KeyError("type")
            ELSE IF value_type = Text("date_time")
            THEN (IF dict_has(value, "data")
                  THEN _datetime_from_database(dict_get(value, "data"))
                  ELSE KeyError("data"))
            ELSE IF value_type = Text("duration")
            THEN (IF dict_has(value, "data")
                  THEN _duration_from_database(dict_get(value, "data"))
                  ELSE KeyError("data"))
            ELSE IF value_type = Text("time_pattern")
            THEN _time_pattern_from_database(value)
            ELSE IF value_type = Text("time_series")
            THEN _time_series_from_database(value)
            ELSE ParameterValueFormatErrorNaming("Unknown parameter value type", value_type)
    IN  IF IsRaised(value) THEN ParameterValueFormatError("Could not decode the value")
        ELSE IF value.class = "dict"
        THEN (IF IsRaised(returned) /\ returned.exception = "KeyError"
              THEN ParameterValueFormatErrorNaming(
                       "is missing in the parameter value description", returned.message)
              ELSE returned)
        ELSE value

-----------------------------------------------------------------------------
(* The codec as a state machine: a caller holds a value object, writes it   *)
(* with to_database and reads the text back with from_database.             *)

\* Time steps a caller may build with relativedelta(...).
RelativeDeltas ==
    {relativedelta(0, 0, 0, 0, 0, 7), relativedelta(0, 0, 0, 0, 0, 90),
     relativedelta(0, 0, 0, 26, 0, 0), relativedelta(0, 0, 3, 0, 0, 0),
     relativedelta(0, 13, 0, 0, 0, 0), relativedelta(2, 0, 0, 0, 0, 0),
     relativedelta(0, 0, 0, -1, 0, 0), relativedelta(0, 1, 0, 0, 0, 1)}

DateTimes ==
    {datetime(d, t, us, tz[1], tz[2]) :
        d \in {<<2019, 6, 1>>, <<2020, 2, 29>>}, t \in {<<0, 0, 0>>, <<22, 15, 30>>},
        us \in {0, 500000}, tz \in {<<FALSE, 0>>, <<TRUE, 0>>, <<TRUE, 120>>, <<TRUE, -330>>}}

Stamps == {datetime64(<<2019, 6, 1>>, <<0, 0, 0>>), datetime64(<<2019, 6, 1>>, <<12, 0, 0>>)}

Patterns == {"a", "b"}

SeqsOf(S, lo, hi) == UNION {[1..n -> S] : n \in lo..hi}

\* Value arrays: floats, or the integers a caller passed.
Arrays(n) == {ndarray("float64", items) : items \in [1..n -> {1, 2}]}
                \cup {ndarray("int64", [i \in 1..n |-> i])}

Durations == {Duration(PyList(steps)) : steps \in SeqsOf(RelativeDeltas, 1, MaxSteps)}

TimePatterns ==
    UNION {{TimePattern(indexes, values) : indexes \in [1..n -> Patterns], values \in Arrays(n)} :
           n \in 1..MaxEntries}

TimeSeriesFixedResolutions ==
    UNION {{TimeSeriesFixedResolution(start, PyList(resolution), values, flags[1], flags[2]) :
                start \in {datetime(<<2019, 1, 31>>, <<0, 0, 0>>, 0, FALSE, 0),
                           datetime(<<2019, 1, 31>>, <<23, 0, 0>>, 0, TRUE, 120)},
                resolution \in SeqsOf(RelativeDeltas, 1, MaxSteps),
                values \in Arrays(n), flags \in BOOLEAN \X BOOLEAN} :
           n \in 2..MaxEntries}

TimeSeriesVariableResolutions ==
    UNION {{TimeSeriesVariableResolution(indexes, values, flags[1], flags[2]) :
                indexes \in [1..n -> Stamps], values \in Arrays(n),
                flags \in BOOLEAN \X BOOLEAN} :
           n \in 2..MaxEntries}

Values ==
    {DateTime(stamp) : stamp \in DateTimes} \cup Durations \cup TimePatterns
        \cup TimeSeriesFixedResolutions \cup TimeSeriesVariableResolutions

UnchangedFilter == UNCHANGED filter_vars

\* database_value = to_database(value_object)
call_to_database ==
    /\ database_value = None
    /\ database_value' = to_database(value_object)
    /\ UNCHANGED <<value_object, decoded_value>>
    /\ UnchangedFilter
    /\ UnchangedUrl
    /\ UnchangedConversions
    /\ UnchangedSweep
    /\ UnchangedExport

\* decoded_value = from_database(database_value)
call_from_database ==
    /\ database_value # None
    /\ ~IsRaised(database_value)
    /\ decoded_value = None
    /\ decoded_value' = from_database(database_value)
    /\ UNCHANGED <<value_object, database_value>>
    /\ UnchangedFilter
    /\ UnchangedUrl
    /\ UnchangedConversions
    /\ UnchangedSweep
    /\ UnchangedExport

CodecInit ==
    /\ scenario_alternative_table = <<>>
    /\ parameter_value_table = <<>>
    /\ parameter_value_sq_maker = 0
    /\ alternative_sq_maker = 0
    /\ scenario_sq_maker = 0
    /\ scenario_alternative_sq_maker = 0
    /\ states = <<>>
    /\ result = NoResult
    /\ fetched = NothingFetched
    /\ value_object \in Values
    /\ database_value = None
    /\ decoded_value = None
    /\ original_url = <<>>
    /\ current_url = <<>>
    /\ calls = <<>>
    /\ popped = None
    /\ conversions = <<>>
    /\ NothingSwept
    /\ NothingExported

CodecNext ==
    \/ call_to_database
    \/ call_from_database

CodecSpec == CodecInit /\ [][CodecNext]_vars

-----------------------------------------------------------------------------
(* Reading as a state machine: the database holds a value some writer left  *)
(* there, and a caller reads it with from_database.                         *)

\* Timestamps as a writer may spell them: two that dateutil reads and two
\* that it does not.
GoodStamps ==
    {isoformat(datetime(<<2019, 6, 1>>, <<0, 0, 0>>, 0, FALSE, 0), "T"),
     isoformat(datetime(<<2019, 6, 1>>, <<12, 0, 0>>, 0, FALSE, 0), " ")}

BadStamps == {Str(<<"n", "o", "w", "?">>), Str(<<>>)}

\* A year where a timestamp belongs: a number, not a text.
NumberStamps == {PyInt(2019)}

\* Durations as a writer may spell them.
GoodDurations == {Str(<<"1", "h">>), Str(<<"2", " ", "d", "a", "y", "s">>), PyInt(30)}

ZeroDurations == {Str(<<"0", "h">>), PyInt(0)}

BadDurations == {Str(<<"1", " ", "f", "o", "r", "t", "n", "i", "g", "h", "t">>), Str(<<"h">>)}

\* A key of a JSON object that the writer left out.
Absent == [class |-> "absent"]

\* The items of a JSON object: the keys that are not left out, in order.
RECURSIVE Items(_)
Items(pairs) ==
    IF pairs = <<>> THEN <<>>
    ELSE (IF pairs[1][2] = Absent THEN <<>> ELSE <<pairs[1]>>) \o Items(Tail(pairs))

Object(pairs) == dict_of(Items(pairs))

Flags == {Absent, PyBool(TRUE), PyBool(FALSE)}

\* {"type": "time_series", "index": {...}, "data": [numbers]}
SingleColumnDocuments ==
    {Object(<< <<"type", Text("time_series")>>,
               <<"index", Object(<< <<"start", start>>, <<"resolution", resolution>>,
                                    <<"ignore_year", ignore_year>>, <<"repeat", repeat>> >>)>>,
               <<"data", PyList(<<PyFloat(1), PyFloat(2), PyFloat(3)>>)>> >>) :
        start \in {Absent} \cup GoodStamps \cup BadStamps \cup NumberStamps,
        resolution \in {Absent, PyList(<<Str(<<"1", "h">>), Str(<<"1", "M">>)>>),
                        PyList(<<Str(<<"1", "h">>), Str(<<"h">>)>>)}
                           \cup GoodDurations \cup BadDurations,
        ignore_year \in Flags, repeat \in Flags}
    \cup {Object(<< <<"type", Text("time_series")>>, <<"index", index>>,
                    <<"data", PyList(<<PyInt(1), PyInt(2)>>)>> >>) :
             index \in {Absent, EmptyDict}}

\* {"type": "time_series", "index": {...}, "data": {stamp: number, ...}}
DictionaryDocuments ==
    {Object(<< <<"type", Text("time_series")>>,
               <<"data", dict_of(<< <<first, PyFloat(1)>>, <<second, PyFloat(2)>> >>)>>,
               <<"index", index>> >>) :
        first \in GoodStamps \cup BadStamps, second \in GoodStamps \cup BadStamps,
        index \in {Absent, Object(<< <<"repeat", PyBool(TRUE)>> >>)}}

\* Entries of a two column time series: stamp and number, or something else.
Entries ==
    {PyList(<<stamp, PyFloat(1)>>) : stamp \in GoodStamps \cup BadStamps \cup NumberStamps}
        \cup {PyList(<<>>), PyFloat(1),
              PyList(<<CHOOSE stamp \in GoodStamps : TRUE, PyFloat(1), PyFloat(2)>>)}

\* {"type": "time_series", "data": [[stamp, number], ...]}
TwoColumnDocuments ==
    {Object(<< <<"type", Text("time_series")>>, <<"data", PyList(<<first, second>>)>> >>) :
        first \in {entry \in Entries : entry.class = "list"}, second \in Entries}

\* {"type": "duration", "data": ...}
DurationDocuments ==
    {Object(<< <<"type", Text("duration")>>, <<"data", data>> >>) :
        data \in GoodDurations \cup ZeroDurations \cup BadDurations
                    \cup {PyList(<<first, second>>) :
                             first \in GoodDurations,
                             second \in GoodDurations \cup ZeroDurations \cup BadDurations}
                    \cup {Absent, PyList(<<>>), PyFloat(2), PyBool(TRUE), EmptyDict}}

\* {"type": "date_time", "data": stamp}
DateTimeDocuments ==
    {Object(<< <<"type", Text("date_time")>>, <<"data", data>> >>) :
        data \in {Absent} \cup GoodStamps \cup BadStamps \cup NumberStamps}

\* {"type": "time_pattern", "data": {...}}
TimePatternDocuments ==
    {Object(<< <<"type", Text("time_pattern")>>, <<"data", data>> >>) :
        data \in {Absent, dict_of(<< <<"a", PyFloat(1)>>, <<"b", PyFloat(2)>> >>)}}

\* {"type": "map", "index_type": ..., "data": ...}: the documents of the
\* tests, with a mapping, with [index, value] pairs and with a map in a map.
MapDocuments ==
    {Object(<< <<"type", Text("map")>>, <<"index_type", Text("str")>>,
               <<"data", dict_of(<< <<"a", PyFloat(1)>>, <<"b", PyFloat(2)>> >>)>> >>),
     Object(<< <<"type", Text("map")>>, <<"index_type", Text("float")>>,
               <<"data", PyList(<<PyList(<<PyFloat(1), Text("a")>>),
                                  PyList(<<PyFloat(2), Text("b")>>)>>)>> >>),
     Object(<< <<"type", Text("map")>>, <<"index_type", Text("duration")>>,
               <<"data", PyList(<<PyList(<<Str(<<"1", " ", "h", "o", "u", "r">>),
                   Object(<< <<"type", Text("map")>>, <<"index_type", Text("str")>>,
                             <<"data", dict_of(<< <<"a", PyFloat(1)>> >>)>> >>)>>)>>)>> >>)}

\* Documents with little or no data: a time series of no value, of one
\* value and of one [stamp, number] entry, and a time pattern of no entry.
ShortDocuments ==
    {Object(<< <<"type", Text("time_series")>>, <<"data", data>> >>) :
        data \in {PyList(<<>>), PyList(<<PyFloat(1)>>), EmptyDict,
                  PyList(<<PyList(<<CHOOSE stamp \in GoodStamps : TRUE, PyFloat(1)>>)>>)}}
    \cup {Object(<< <<"type", Text("time_pattern")>>, <<"data", EmptyDict>> >>)}

\* Objects of another type or of none, values that are no object, and a
\* text that is not JSON.
OtherDocuments ==
    {Object(<< <<"type", type>>, <<"data", PyInt(1)>> >>) :
        type \in {Absent, Text("bogus"), Text("map"), Text("time_serie")}}
    \cup {Object(<< <<"type", Text("time_series")>> >>), EmptyDict, PyInt(5), PyFloat(2),
          NotJson(<<"{", "\"", "t", "y", "p", "e", "\"", ":">>), NotJson(<<>>)}

Documents ==
    SingleColumnDocuments \cup DictionaryDocuments \cup TwoColumnDocuments
        \cup DurationDocuments \cup DateTimeDocuments \cup TimePatternDocuments
        \cup MapDocuments \cup ShortDocuments
        \cup OtherDocuments

DecodeInit ==
    /\ scenario_alternative_table = <<>>
    /\ parameter_value_table = <<>>
    /\ parameter_value_sq_maker = 0
    /\ alternative_sq_maker = 0
    /\ scenario_sq_maker = 0
    /\ scenario_alternative_sq_maker = 0
    /\ states = <<>>
    /\ result = NoResult
    /\ fetched = NothingFetched
    /\ value_object = None
    /\ database_value \in Documents
    /\ decoded_value = None
    /\ original_url = <<>>
    /\ current_url = <<>>
    /\ calls = <<>>
    /\ popped = None
    /\ conversions = <<>>
    /\ NothingSwept
    /\ NothingExported

DecodeNext == call_from_database

DecodeSpec == DecodeInit /\ [][DecodeNext]_vars

-----------------------------------------------------------------------------
(* Arithmetic of dateutil.relativedelta and datetime, as                    *)
(* TimeSeriesFixedResolution.indexes uses it.                               *)

\* relativedelta.__add__(relativedelta): the fields are added and the
\* constructor normalises the sums.
relativedelta_add(a, b) ==
    relativedelta(a.years + b.years, a.months + b.months, a.days + b.days,
                  a.hours + b.hours, a.minutes + b.minutes, a.seconds + b.seconds)

\* int * relativedelta.
relativedelta_mul(n, delta) ==
    relativedelta(n * delta.years, n * delta.months, n * delta.days,
                  n * delta.hours, n * delta.minutes, n * delta.seconds)

\* sum(steps, relativedelta()).
RECURSIVE relativedelta_sum(_)
relativedelta_sum(steps) ==
    IF steps = <<>> THEN relativedelta(0, 0, 0, 0, 0, 0)
    ELSE relativedelta_add(relativedelta_sum(SubSeq(steps, 1, Len(steps) - 1)),
                           steps[Len(steps)])

\* Years the stamps of the model fall in.
Years == 2015..2025

\* datetime.date.fromordinal(n).
fromordinal(n) ==
    With(CHOOSE y \in Years : DaysBeforeYear(y) < n /\ n <= DaysBeforeYear(y + 1), LAMBDA y :
    With(CHOOSE m \in 1..12 : /\ DaysBeforeMonth(y, m) < n - DaysBeforeYear(y)
                              /\ n - DaysBeforeYear(y) <= DaysBeforeMonth(y, m) + DaysInMonth(y, m),
         LAMBDA m : <<y, m, n - DaysBeforeYear(y) - DaysBeforeMonth(y, m)>>))

\* datetime.date.toordinal().
toordinal(date) == DaysBeforeYear(date[1]) + DaysBeforeMonth(date[1], date[2]) + date[3]

\* datetime + timedelta(days, seconds).
timedelta_add(stamp, days, seconds) ==
    With(stamp.time[1] * 3600 + stamp.time[2] * 60 + stamp.time[3] + seconds, LAMBDA total :
        [stamp EXCEPT
            !.date = fromordinal(toordinal(stamp.date) + days + (total \div 86400)),
            !.time = <<(total % 86400) \div 3600, ((total % 86400) % 3600) \div 60,
                       (total % 86400) % 60>>])

\* relativedelta.__radd__(datetime): the years and months move the date,
\* the day is cut to the length of the month reached, then the days, hours,
\* minutes and seconds are added as a timedelta.
datetime_add(stamp, delta) ==
    With(stamp.date[2] + delta.months, LAMBDA month :
    With(IF month > 12 THEN <<stamp.date[1] + delta.years + 1, month - 12>>
         ELSE IF month < 1 THEN <<stamp.date[1] + delta.years - 1, month + 12>>
         ELSE <<stamp.date[1] + delta.years, month>>, LAMBDA ym :
    With(IF DaysInMonth(ym[1], ym[2]) < stamp.date[3] THEN DaysInMonth(ym[1], ym[2])
         ELSE stamp.date[3], LAMBDA day :
        timedelta_add([stamp EXCEPT !.date = <<ym[1], ym[2], day>>], delta.days,
                      delta.hours * 3600 + delta.minutes * 60 + delta.seconds))))

\* The loop of indexes starting every cycle from the start of the series.
RECURSIVE indexes_from_first_cycle(_, _, _, _)
indexes_from_first_cycle(self, stamp_index, step_index, step_cycle_index) ==
    IF stamp_index >= Len(self.values.items) THEN <<>>
    ELSE With(IF step_index >= Len(self.resolution) THEN 0 ELSE step_index, LAMBDA at :
             <<np_datetime64(datetime_add(self.start,
                   relativedelta_sum(SubSeq(self.resolution, 1, at + 1))))>>
                \o indexes_from_first_cycle(self, stamp_index + 1, at + 1, 0))

\* The loop of TimeSeriesFixedResolution.indexes from stamp_index on.
RECURSIVE indexes_from(_, _, _, _)
indexes_from(self, stamp_index, step_index, step_cycle_index) ==
    IF stamp_index >= Len(self.values.items) THEN <<>>
    ELSE With(IF step_index >= Len(self.resolution) THEN <<0, step_cycle_index + 1>>
              ELSE <<step_index, step_cycle_index>>, LAMBDA at :
             <<np_datetime64(datetime_add(self.start,
                   relativedelta_add(
                       relativedelta_mul(at[2], relativedelta_sum(self.resolution)),
                       relativedelta_sum(SubSeq(self.resolution, 1, at[1] + 1)))))>>
                \o indexes_from(self, stamp_index + 1, at[1] + 1, at[2]))

\* TimeSeriesFixedResolution.indexes.
indexes(self) == <<np_datetime64(self.start)>> \o indexes_from(self, 1, 0, 0)

-----------------------------------------------------------------------------
(* The duration and time stamp functions as a state machine: a caller       *)
(* passes a text to duration_to_relativedelta or a step to                  *)
(* relativedelta_to_duration, and may pass what one returned to the other;  *)
(* or it reads the indexes of a fixed resolution series.                    *)

\* Counts a caller may write in a duration.
Counts ==
    {<<"1">>, <<"7">>, <<"1", "2">>, <<"2", "4">>, <<"6", "0">>, <<"9", "0">>,
     <<"-", "3">>, <<"+", "2">>, <<"0">>, <<"1", ".", "5">>, <<>>}

Abbreviations == {<<"s">>, <<"m">>, <<"h">>, <<"D">>, <<"M">>, <<"Y">>}

Words ==
    {<<"s", "e", "c", "o", "n", "d">>, <<"m", "i", "n", "u", "t", "e">>, <<"h", "o", "u", "r">>,
     <<"d", "a", "y">>, <<"m", "o", "n", "t", "h">>, <<"y", "e", "a", "r">>}

\* Unit tokens: the abbreviations, the words and their plurals.
UnitTokens == Abbreviations \cup Words \cup {word \o <<"s">> : word \in Words}

\* What else a caller may write after the count.
OtherTokens == {<<>>, <<"d">>, <<"x">>, <<"h", "x", "y", "z">>, <<"w", "e", "e", "k">>, <<" ", "h">>}

\* Texts a caller may pass to duration_to_relativedelta.
DurationTexts ==
    {Str(count \o space \o token) :
        count \in Counts, space \in {<<>>, <<" ">>}, token \in UnitTokens \cup OtherTokens}

\* Steps a caller may pass to relativedelta_to_duration.
Deltas ==
    {relativedelta(years, months, days, hours, minutes, seconds) :
        years \in {0, 1}, months \in {-1, 0, 1}, days \in {0, 2}, hours \in {-1, 0, 1},
        minutes \in {0, 3}, seconds \in {-5, 0, 5}}

\* Fixed resolution series whose indexes a caller may read.
IndexedSeries ==
    UNION {{TimeSeriesFixedResolution(start, PyList(resolution),
                                      ndarray("float64", [i \in 1..n |-> 1]), FALSE, FALSE) :
                start \in {datetime(<<2019, 1, 31>>, <<0, 0, 0>>, 0, FALSE, 0),
                           datetime(<<2020, 2, 28>>, <<23, 30, 0>>, 0, FALSE, 0)},
                resolution \in SeqsOf({relativedelta(0, 0, 1, 0, 0, 0),
                                       relativedelta(0, 1, 0, 0, 0, 0),
                                       relativedelta(0, 0, 0, 0, 45, 0),
                                       relativedelta(0, 0, 0, -1, 0, 0)}, 1, MaxSteps)} :
           n \in 2..MaxStamps}

\* The argument of the next call: any of the inputs for the first call,
\* what the last call returned, when it is of the class the function
\* takes, for a later one.
Arguments(inputs, class) ==
    IF conversions = <<>> THEN inputs
    ELSE IF conversions[Len(conversions)].function = "indexes" THEN {}
    ELSE {returned \in {conversions[Len(conversions)].returned} : returned.class = class}

Conversion(function, argument, returned) ==
    [function |-> function, argument |-> argument, returned |-> returned]

UnchangedAllButConversions == UNCHANGED <<filter_vars, codec_vars, url_vars>>

\* delta = duration_to_relativedelta(text)
call_duration_to_relativedelta(text) ==
    /\ Len(conversions) < MaxConversions
    /\ conversions' = Append(conversions,
                             Conversion("duration_to_relativedelta", text,
                                        duration_to_relativedelta(text)))
    /\ UnchangedAllButConversions
    /\ UnchangedSweep
    /\ UnchangedExport

\* text = relativedelta_to_duration(delta)
call_relativedelta_to_duration(delta) ==
    /\ Len(conversions) < MaxConversions
    /\ conversions' = Append(conversions,
                             Conversion("relativedelta_to_duration", delta,
                                        relativedelta_to_duration(delta)))
    /\ UnchangedAllButConversions
    /\ UnchangedSweep
    /\ UnchangedExport

\* stamps = series.indexes
call_indexes(series) ==
    /\ conversions = <<>>
    /\ conversions' = <<Conversion("indexes", series, indexes(series))>>
    /\ UnchangedAllButConversions
    /\ UnchangedSweep
    /\ UnchangedExport

ConversionInit ==
    /\ scenario_alternative_table = <<>>
    /\ parameter_value_table = <<>>
    /\ parameter_value_sq_maker = 0
    /\ alternative_sq_maker = 0
    /\ scenario_sq_maker = 0
    /\ scenario_alternative_sq_maker = 0
    /\ states = <<>>
    /\ result = NoResult
    /\ fetched = NothingFetched
    /\ value_object = None
    /\ database_value = None
    /\ decoded_value = None
    /\ original_url = <<>>
    /\ current_url = <<>>
    /\ calls = <<>>
    /\ popped = None
    /\ conversions = <<>>
    /\ NothingSwept
    /\ NothingExported

ConversionNext ==
    \/ \E text \in Arguments(DurationTexts, "str") : call_duration_to_relativedelta(text)
    \/ \E delta \in Arguments(Deltas, "relativedelta") : call_relativedelta_to_duration(delta)
    \/ \E series \in IndexedSeries : call_indexes(series)

ConversionSpec == ConversionInit /\ [][ConversionNext]_vars

-----------------------------------------------------------------------------
(* Construction from an object of the same class: DateTime(DateTime) and    *)
(* Duration(Duration), as the tests make copies.                            *)

\* copied = DateTime(date_time)
call_DateTime(value) ==
    /\ conversions = <<>>
    /\ conversions' = <<Conversion("DateTime", value, DateTime(value))>>
    /\ UnchangedAllButConversions
    /\ UnchangedSweep
    /\ UnchangedExport

\* copied = Duration(duration)
call_Duration(value) ==
    /\ conversions = <<>>
    /\ conversions' = <<Conversion("Duration", value, Duration(value))>>
    /\ UnchangedAllButConversions
    /\ UnchangedSweep
    /\ UnchangedExport

CopyInit == ConversionInit

CopyNext ==
    \/ \E stamp \in DateTimes : call_DateTime(DateTime(stamp))
    \/ \E duration \in Durations : call_Duration(duration)

CopySpec == CopyInit /\ [][CopyNext]_vars

-----------------------------------------------------------------------------
(* Python str methods and urllib.parse, as filters/url_tools.py uses them.  *)
(* A str is the sequence of its characters.                                 *)

\* str.find(c, start) for a set of characters: the first position at or
\* after start that holds one of them, 0 when there is none.
find(string, characters, start) ==
    IF \E i \in start..Len(string) : string[i] \in characters
    THEN CHOOSE i \in start..Len(string) :
             /\ string[i] \in characters
             /\ \A j \in start..(i - 1) : string[j] \notin characters
    ELSE 0

\* str.rfind(c): the last position that holds c, 0 when there is none.
rfind(string, c, end) ==
    IF \E i \in 1..end : string[i] = c
    THEN CHOOSE i \in 1..end : string[i] = c /\ \A j \in (i + 1)..end : string[j] # c
    ELSE 0

\* str.partition(c): the text before the first c, whether c was found, and
\* the text after it.
partition(string, c) ==
    With(find(string, {c}, 1), LAMBDA at :
        IF at = 0 THEN [head |-> string, found |-> FALSE, tail |-> <<>>]
        ELSE [head |-> SubSeq(string, 1, at - 1), found |-> TRUE,
              tail |-> SubSeq(string, at + 1, Len(string))])

\* str.split(c): the pieces between the occurrences of c.
RECURSIVE split(_, _)
split(string, c) ==
    With(partition(string, c), LAMBDA parts :
        IF parts.found THEN <<parts.head>> \o split(parts.tail, c) ELSE <<string>>)

\* c.join(pieces).
RECURSIVE join(_, _)
join(pieces, c) ==
    IF pieces = <<>> THEN <<>>
    ELSE IF Len(pieces) = 1 THEN pieces[1]
    ELSE pieces[1] \o <<c>> \o join(Tail(pieces), c)

startswith(string, prefix) ==
    Len(string) >= Len(prefix) /\ SubSeq(string, 1, Len(prefix)) = prefix

\* str.replace(old, new) for single characters.
replace(string, old, new) == [i \in 1..Len(string) |-> IF string[i] = old THEN new ELSE string[i]]

UpperCase ==
    <<"A", "B", "C", "D", "E", "F", "G", "H", "I", "J", "K", "L", "M", "N", "O", "P", "Q",
      "R", "S", "T", "U", "V", "W", "X", "Y", "Z">>

LowerCase ==
    <<"a", "b", "c", "d", "e", "f", "g", "h", "i", "j", "k", "l", "m", "n", "o", "p", "q",
      "r", "s", "t", "u", "v", "w", "x", "y", "z">>

\* str.lower() of one character.
lower(c) ==
    IF \E i \in 1..Len(UpperCase) : UpperCase[i] = c
    THEN LowerCase[CHOOSE i \in 1..Len(UpperCase) : UpperCase[i] = c]
    ELSE c

\* urllib.parse.scheme_chars.
scheme_chars == Letters \cup {Digits[d] : d \in 1..Len(Digits)} \cup {"+", "-", "."}

\* urllib.parse.uses_netloc.
uses_netloc ==
    {<<>>, <<"f", "t", "p">>, <<"h", "t", "t", "p">>, <<"g", "o", "p", "h", "e", "r">>,
    <<"n", "n", "t", "p">>, <<"t", "e", "l", "n", "e", "t">>, <<"i", "m", "a", "p">>,
    <<"w", "a", "i", "s">>, <<"f", "i", "l", "e">>, <<"m", "m", "s">>, <<"h", "t", "t",
    "p", "s">>, <<"s", "h", "t", "t", "p">>, <<"s", "n", "e", "w", "s">>, <<"p", "r",
    "o", "s", "p", "e", "r", "o">>, <<"r", "t", "s", "p">>, <<"r", "t", "s", "p", "s">>,
    <<"r", "t", "s", "p", "u">>, <<"r", "s", "y", "n", "c">>, <<"s", "v", "n">>, <<"s",
    "v", "n", "+", "s", "s", "h">>, <<"s", "f", "t", "p">>, <<"n", "f", "s">>, <<"g",
    "i", "t">>, <<"g", "i", "t", "+", "s", "s", "h">>, <<"w", "s">>, <<"w", "s", "s">>}

\* urllib.parse.uses_params.
uses_params ==
    {<<>>, <<"f", "t", "p">>, <<"h", "d", "l">>, <<"p", "r", "o", "s", "p", "e", "r",
    "o">>, <<"h", "t", "t", "p">>, <<"i", "m", "a", "p">>, <<"h", "t", "t", "p", "s">>,
    <<"s", "h", "t", "t", "p">>, <<"r", "t", "s", "p">>, <<"r", "t", "s", "p", "s">>,
    <<"r", "t", "s", "p", "u">>, <<"s", "i", "p">>, <<"s", "i", "p", "s">>, <<"m", "m",
    "s">>, <<"s", "f", "t", "p">>, <<"t", "e", "l">>}

\* The scheme urlsplit takes off the front of a URL, in lower case, and the
\* text after its colon; no scheme when the text before the first colon is
\* not a scheme name.
_splitscheme(url) ==
    With(find(url, {":"}, 1), LAMBDA i :
        IF i > 1 /\ IsLetter(url[1]) /\ \A j \in 1..(i - 1) : url[j] \in scheme_chars
        THEN <<[j \in 1..(i - 1) |-> lower(url[j])], SubSeq(url, i + 1, Len(url))>>
        ELSE <<<<>>, url>>)

\* urllib.parse._splitnetloc(url, start): the text from start up to the
\* first of "/", "?" and "#", and the text from there on.
_splitnetloc(url, start) ==
    With(find(url, {"/", "?", "#"}, start + 1), LAMBDA wdelim :
        IF wdelim = 0 THEN <<SubSeq(url, start + 1, Len(url)), <<>>>>
        ELSE <<SubSeq(url, start + 1, wdelim - 1), SubSeq(url, wdelim, Len(url))>>)

\* urllib.parse.urlsplit(url).
urlsplit(url) ==
    With(_splitscheme(url), LAMBDA schemed :
    With(IF startswith(schemed[2], <<"/", "/">>) THEN _splitnetloc(schemed[2], 2)
         ELSE <<<<>>, schemed[2]>>, LAMBDA located :
    With(partition(located[2], "#"), LAMBDA by_fragment :
    With(partition(by_fragment.head, "?"), LAMBDA by_query :
        [scheme |-> schemed[1], netloc |-> located[1], path |-> by_query.head,
         query |-> by_query.tail, fragment |-> by_fragment.tail]))))

\* urllib.parse._splitparams(url).
_splitparams(url) ==
    With(rfind(url, "/", Len(url)), LAMBDA slash :
    With(find(url, {";"}, IF slash = 0 THEN 1 ELSE slash), LAMBDA i :
        IF i = 0 /\ slash # 0 THEN <<url, <<>>>>
        ELSE IF i = 0 THEN <<SubSeq(url, 1, Len(url) - 1), url>>
        ELSE <<SubSeq(url, 1, i - 1), SubSeq(url, i + 1, Len(url))>>))

\* urllib.parse.urlparse(url).
urlparse(url) ==
    With(urlsplit(url), LAMBDA splitresult :
    With(IF splitresult.scheme \in uses_params /\ find(splitresult.path, {";"}, 1) # 0
         THEN _splitparams(splitresult.path)
         ELSE <<splitresult.path, <<>>>>, LAMBDA halves :
        [scheme |-> splitresult.scheme, netloc |-> splitresult.netloc,
         path |-> halves[1], params |-> halves[2],
         query |-> splitresult.query, fragment |-> splitresult.fragment]))

\* urllib.parse.urlunsplit(components).
urlunsplit(scheme, netloc, url, query, fragment) ==
    LET with_netloc ==
            IF netloc # <<>> \/ (scheme # <<>> /\ scheme \in uses_netloc
                                    /\ ~startswith(url, <<"/", "/">>))
            THEN <<"/", "/">> \o netloc
                    \o (IF url # <<>> /\ url[1] # "/" THEN <<"/">> \o url ELSE url)
            ELSE url
        with_scheme == IF scheme # <<>> THEN scheme \o <<":">> \o with_netloc ELSE with_netloc
        with_query == IF query # <<>> THEN with_scheme \o <<"?">> \o query ELSE with_scheme
    IN  IF fragment # <<>> THEN with_query \o <<"#">> \o fragment ELSE with_query

\* urllib.parse.urlunparse(components); ParseResult.geturl() is the same.
urlunparse(components) ==
    urlunsplit(components.scheme, components.netloc,
               IF components.params # <<>>
               THEN components.path \o <<";">> \o components.params
               ELSE components.path,
               components.query, components.fragment)

\* The characters quote never escapes.
_ALWAYS_SAFE == Letters \cup {Digits[d] : d \in 1..Len(Digits)} \cup {"_", ".", "-", "~"}

\* The ASCII codes, in hexadecimal, of the characters quote escapes.
PercentCodes ==
    <<<<" ", "2", "0">>, <<"#", "2", "3">>, <<"%", "2", "5">>, <<"&", "2", "6">>,
      <<"+", "2", "B">>, <<"/", "2", "F">>, <<":", "3", "A">>, <<";", "3", "B">>,
      <<"=", "3", "D">>, <<"?", "3", "F">>, <<"@", "4", "0">>>>

HexDigits == {Digits[d] : d \in 1..Len(Digits)} \cup {"A", "B", "C", "D", "E", "F"}
                \cup {"a", "b", "c", "d", "e", "f"}

\* The upper case of a hexadecimal digit.
upper(c) ==
    IF \E i \in 1..Len(LowerCase) : LowerCase[i] = c
    THEN UpperCase[CHOOSE i \in 1..Len(LowerCase) : LowerCase[i] = c]
    ELSE c

\* urllib.parse.quote(string, safe).
RECURSIVE quote(_, _)
quote(string, safe) ==
    IF string = <<>> THEN <<>>
    ELSE (IF string[1] \in _ALWAYS_SAFE \cup safe THEN <<string[1]>>
          ELSE With(CHOOSE k \in 1..Len(PercentCodes) : PercentCodes[k][1] = string[1],
                    LAMBDA k : <<"%", PercentCodes[k][2], PercentCodes[k][3]>>))
            \o quote(Tail(string), safe)

\* urllib.parse.quote_plus(string).
quote_plus(string) ==
    IF find(string, {" "}, 1) = 0 THEN quote(string, {})
    ELSE replace(quote(string, {" "}), " ", "+")

\* urllib.parse.unquote(string): "%" and two hexadecimal digits are the
\* character of that code, any other "%" stays.
RECURSIVE unquote(_)
unquote(string) ==
    IF string = <<>> THEN <<>>
    ELSE IF string[1] = "%" /\ Len(string) >= 3 /\ string[2] \in HexDigits
               /\ string[3] \in HexDigits
    THEN <<PercentCodes[CHOOSE k \in 1..Len(PercentCodes) :
                           /\ PercentCodes[k][2] = upper(string[2])
                           /\ PercentCodes[k][3] = upper(string[3])][1]>>
            \o unquote(SubSeq(string, 4, Len(string)))
    ELSE <<string[1]>> \o unquote(Tail(string))

\* dict.pop(key) / del dict[key]: the dict without the key.
dict_del(d, key) ==
    [d EXCEPT !.items = SelectSeq(d.items, LAMBDA item : item[1] # key)]

\* urllib.parse.parse_qsl(qs): the decoded (name, value) pairs; a field
\* without "=" or with a blank value is left out.
RECURSIVE parse_qsl(_)
parse_qsl(query_args) ==
    IF query_args = <<>> THEN <<>>
    ELSE With(partition(query_args[1], "="), LAMBDA nv :
             IF query_args[1] # <<>> /\ nv.found /\ nv.tail # <<>>
             THEN << <<unquote(replace(nv.head, "+", " ")),
                       unquote(replace(nv.tail, "+", " "))>> >>
             ELSE <<>>)
            \o parse_qsl(Tail(query_args))

\* The dict parse_qs builds from the pairs: name -> list of values.
RECURSIVE parsed_result(_)
parsed_result(pairs) ==
    IF pairs = <<>> THEN EmptyDict
    ELSE With(parsed_result(SubSeq(pairs, 1, Len(pairs) - 1)), LAMBDA before :
         With(pairs[Len(pairs)], LAMBDA pair :
             IF dict_has(before, pair[1])
             THEN dict_set(before, pair[1], Append(dict_get(before, pair[1]), pair[2]))
             ELSE dict_set(before, pair[1], <<pair[2]>>)))

\* urllib.parse.parse_qs(qs).
parse_qs(qs) == parsed_result(parse_qsl(IF qs = <<>> THEN <<>> ELSE split(qs, "&")))

\* The fields urlencode writes for the items of a dict of lists: one
\* name=value for every value of every name, both quoted.
RECURSIVE urlencode_fields(_)
urlencode_fields(items) ==
    IF items = <<>> THEN <<>>
    ELSE [e \in 1..Len(items[1][2]) |->
             quote_plus(items[1][1]) \o <<"=">> \o quote_plus(items[1][2][e])]
            \o urlencode_fields(Tail(items))

\* urllib.parse.urlencode(query, doseq=True) for a dict of lists.
urlencode(query) == join(urlencode_fields(query.items), "&")

-----------------------------------------------------------------------------
(* Filter configs and their shorthands: filters/scenario_filter.py and      *)
(* filters/url_tools.py.                                                    *)

SCENARIO_FILTER_TYPE == <<"s", "c", "e", "n", "a", "r", "i", "o", "_", "f", "i", "l", "t", "e", "r">>

SCENARIO_SHORTHAND_TAG == <<"s", "c", "e", "n", "a", "r", "i", "o">>

FILTER_IDENTIFIER == <<"s", "p", "i", "n", "e", "d", "b", "f", "i", "l", "t", "e", "r">>

SHORTHAND_TAG == <<"c", "f", "g", ":">>

\* scenario_filter_config(scenario).
scenario_filter_config(scenario) ==
    [class |-> "dict", type |-> SCENARIO_FILTER_TYPE, scenario |-> scenario]

\* scenario_filter_config_to_shorthand(config).
scenario_filter_config_to_shorthand(config) ==
    SCENARIO_SHORTHAND_TAG \o <<":">> \o config.scenario

\* scenario_filter_shorthand_to_config(shorthand).
scenario_filter_shorthand_to_config(shorthand) ==
    scenario_filter_config(partition(shorthand, ":").tail)

\* _config_to_shorthand(config): of the registered filter types, the
\* scenario filter.
_config_to_shorthand(config) ==
    IF config.type = SCENARIO_FILTER_TYPE
    THEN Str(SHORTHAND_TAG \o scenario_filter_config_to_shorthand(config))
    ELSE KeyError(config.type)

\* _parse_shorthand(shorthand).
_parse_shorthand(shorthand) ==
    With(partition(shorthand, ":").head, LAMBDA tag :
        IF tag = SCENARIO_SHORTHAND_TAG THEN scenario_filter_shorthand_to_config(shorthand)
        ELSE KeyError(tag))

\* append_filter_config(url, config).
append_filter_config(url, config) ==
    With(urlparse(url), LAMBDA parsed :
    With(parse_qs(parsed.query), LAMBDA query :
    With(IF dict_has(query, FILTER_IDENTIFIER) THEN dict_get(query, FILTER_IDENTIFIER)
         ELSE <<>>, LAMBDA filters :
    With(IF config.class = "dict" THEN _config_to_shorthand(config) ELSE config,
         LAMBDA shorthand :
        IF IsRaised(shorthand) THEN shorthand
        ELSE Str(urlunparse(
                 [parsed EXCEPT
                     !.query = urlencode(dict_set(query, FILTER_IDENTIFIER,
                                                  Append(filters, shorthand.chars))),
                     !.path = <<"/", "/">> \o parsed.path]))))))

\* The configs pop_filter_configs makes of the filter entries: a shorthand
\* is parsed, any other entry is the path of a config file.
RECURSIVE parsed_filters(_)
parsed_filters(filters) ==
    IF filters = <<>> THEN <<>>
    ELSE <<IF startswith(filters[1], SHORTHAND_TAG)
           THEN _parse_shorthand(SubSeq(filters[1], Len(SHORTHAND_TAG) + 1, Len(filters[1])))
           ELSE Str(filters[1])>>
            \o parsed_filters(Tail(filters))

\* pop_filter_configs(url): the parsed configs and the URL without them.
pop_filter_configs(url) ==
    With(urlparse(url), LAMBDA parsed :
    With(parse_qs(parsed.query), LAMBDA query :
        IF ~dict_has(query, FILTER_IDENTIFIER)
        THEN [class |-> "tuple", configs |-> <<>>, url |-> url]
        ELSE With(parsed_filters(dict_get(query, FILTER_IDENTIFIER)), LAMBDA configs :
                 IF HasRaised(configs) THEN FirstRaised(configs)
                 ELSE [class |-> "tuple", configs |-> configs,
                       url |-> urlunparse(
                           [parsed EXCEPT
                               !.query = urlencode(dict_del(query, FILTER_IDENTIFIER)),
                               !.path = <<"/", "/">> \o parsed.path])])))

\* clear_filter_configs(url).
clear_filter_configs(url) ==
    With(urlparse(url), LAMBDA parsed :
    With(parse_qs(parsed.query), LAMBDA query :
        IF ~dict_has(query, FILTER_IDENTIFIER) THEN url
        ELSE urlunparse([parsed EXCEPT
                            !.query = urlencode(dict_del(query, FILTER_IDENTIFIER)),
                            !.path = <<"/", "/">> \o parsed.path])))

-----------------------------------------------------------------------------
(* The URL tools as a state machine: a caller holds a database URL and      *)
(* passes it through append_filter_config, pop_filter_configs and           *)
(* clear_filter_configs, each time keeping the URL the call returned.       *)

\* Database URLs a caller may start from.
\* sqlite:///db.sqlite
SqliteUrl ==
    <<"s", "q", "l", "i", "t", "e", ":", "/", "/", "/", "d", "b", ".", "s", "q", "l",
    "i", "t", "e">>

\* sqlite:///db.sqlite?a=1&b=x%20y&a=2
SqliteUrlWithQuery ==
    <<"s", "q", "l", "i", "t", "e", ":", "/", "/", "/", "d", "b", ".", "s", "q", "l",
    "i", "t", "e", "?", "a", "=", "1", "&", "b", "=", "x", "%", "2", "0", "y", "&", "a",
    "=", "2">>

\* mysql://user:pw@host/db
MysqlUrl ==
    <<"m", "y", "s", "q", "l", ":", "/", "/", "u", "s", "e", "r", ":", "p", "w", "@",
    "h", "o", "s", "t", "/", "d", "b">>

\* mysql://host/db?a=1
MysqlUrlWithQuery ==
    <<"m", "y", "s", "q", "l", ":", "/", "/", "h", "o", "s", "t", "/", "d", "b", "?",
    "a", "=", "1">>

\* sqlite:///db.sqlite?a=1&spinedbfilter=cfg%3Ascenario%3Abase
FilteredUrl ==
    <<"s", "q", "l", "i", "t", "e", ":", "/", "/", "/", "d", "b", ".", "s", "q", "l",
    "i", "t", "e", "?", "a", "=", "1", "&", "s", "p", "i", "n", "e", "d", "b", "f", "i",
    "l", "t", "e", "r", "=", "c", "f", "g", "%", "3", "A", "s", "c", "e", "n", "a", "r",
    "i", "o", "%", "3", "A", "b", "a", "s", "e">>

\* sqlite:///db.sqlite?spinedbfilter=cfg%3Abogus%3Ax
UnknownFilterUrl ==
    <<"s", "q", "l", "i", "t", "e", ":", "/", "/", "/", "d", "b", ".", "s", "q", "l",
    "i", "t", "e", "?", "s", "p", "i", "n", "e", "d", "b", "f", "i", "l", "t", "e", "r",
    "=", "c", "f", "g", "%", "3", "A", "b", "o", "g", "u", "s", "%", "3", "A", "x">>

\* sqlite:///db.sqlite?a=&b=1
BlankValueUrl ==
    <<"s", "q", "l", "i", "t", "e", ":", "/", "/", "/", "d", "b", ".", "s", "q", "l",
    "i", "t", "e", "?", "a", "=", "&", "b", "=", "1">>

\* sqlite:///db.sqlite?a=&spinedbfilter=f.json&b=1
BlankValueFilteredUrl ==
    <<"s", "q", "l", "i", "t", "e", ":", "/", "/", "/", "d", "b", ".", "s", "q", "l",
    "i", "t", "e", "?", "a", "=", "&", "s", "p", "i", "n", "e", "d", "b", "f", "i", "l",
    "t", "e", "r", "=", "f", ".", "j", "s", "o", "n", "&", "b", "=", "1">>

Urls ==
    {SqliteUrl, SqliteUrlWithQuery, MysqlUrl, MysqlUrlWithQuery, FilteredUrl, UnknownFilterUrl,
     BlankValueUrl, BlankValueFilteredUrl}

\* Filter configs a caller may append: scenario filter dicts, and the path
\* of a config file.
Configs ==
    {scenario_filter_config(<<"b", "a", "s", "e">>), scenario_filter_config(<<"a", " ", "b">>),
     scenario_filter_config(<<"x", ":", "y">>),
     Str(<<"f", ".", "j", "s", "o", "n">>)}

UnchangedFilterAndCodec == UNCHANGED <<filter_vars, codec_vars>>

\* The URL a caller holds after a call: the one it held when the call raised.
returned_url(url, returned) == IF IsRaised(returned) THEN url ELSE returned.chars

\* current_url = append_filter_config(current_url, config)
call_append_filter_config(config) ==
    /\ Len(calls) < MaxCalls
    /\ current_url' = returned_url(current_url, append_filter_config(current_url, config))
    /\ calls' = Append(calls, [function |-> "append_filter_config", config |-> config])
    /\ UNCHANGED <<original_url, popped>>
    /\ UnchangedFilterAndCodec
    /\ UnchangedConversions
    /\ UnchangedSweep
    /\ UnchangedExport

\* filters, current_url = pop_filter_configs(current_url)
call_pop_filter_configs ==
    /\ Len(calls) < MaxCalls
    /\ popped' = pop_filter_configs(current_url)
    /\ current_url' = IF IsRaised(popped') THEN current_url ELSE popped'.url
    /\ calls' = Append(calls, [function |-> "pop_filter_configs", config |-> None])
    /\ UNCHANGED original_url
    /\ UnchangedFilterAndCodec
    /\ UnchangedConversions
    /\ UnchangedSweep
    /\ UnchangedExport

\* current_url = clear_filter_configs(current_url)
call_clear_filter_configs ==
    /\ Len(calls) < MaxCalls
    /\ current_url' = clear_filter_configs(current_url)
    /\ calls' = Append(calls, [function |-> "clear_filter_configs", config |-> None])
    /\ UNCHANGED <<original_url, popped>>
    /\ UnchangedFilterAndCodec
    /\ UnchangedConversions
    /\ UnchangedSweep
    /\ UnchangedExport

UrlInit ==
    /\ scenario_alternative_table = <<>>
    /\ parameter_value_table = <<>>
    /\ parameter_value_sq_maker = 0
    /\ alternative_sq_maker = 0
    /\ scenario_sq_maker = 0
    /\ scenario_alternative_sq_maker = 0
    /\ states = <<>>
    /\ result = NoResult
    /\ fetched = NothingFetched
    /\ value_object = None
    /\ database_value = None
    /\ decoded_value = None
    /\ original_url \in Urls
    /\ current_url = original_url
    /\ calls = <<>>
    /\ popped = None
    /\ conversions = <<>>
    /\ NothingSwept
    /\ NothingExported

UrlNext ==
    \/ \E config \in Configs : call_append_filter_config(config)
    \/ call_pop_filter_configs
    \/ call_clear_filter_configs

UrlSpec == UrlInit /\ [][UrlNext]_vars

-----------------------------------------------------------------------------
(* forward_sweep (helpers.py).  The nodes of a tree are 1..Len(tree), the   *)
(* root is 1 and tree[node] is the parent of node, a node before it.  A     *)
(* dict is a function on its keys.                                          *)

\* The trees of 1 to MaxNodes nodes.
Trees ==
    UNION {{t \in [1..n -> 0..(n - 1)] :
               /\ t[1] = 0
               /\ \A node \in 2..n : t[node] \in 1..(node - 1)} : n \in 1..MaxNodes}

root == 1

\* node.get_children(column_collections=False): the children in their order.
get_children(node) ==
    SelectSeq([i \in 1..Len(tree) |-> i], LAMBDA i : tree[i] = node)

\* forward_sweep(root, func), up to the loop.
call_forward_sweep ==
    /\ sweep.class = "frame"
    /\ sweep.at = "not called"
    /\ current' = root
    /\ parent' = <<>>
    /\ children' = (root :> get_children(root))
    /\ sweep' = [class |-> "frame", at |-> "loop"]
    /\ UNCHANGED <<tree, applied>>
    /\ UNCHANGED <<filter_vars, codec_vars, url_vars, conversion_vars>>
    /\ UnchangedExport

\* current = next_ with its parent and its iterator recorded.
visit(next_, from) ==
    /\ parent' = (next_ :> from) @@ parent
    /\ children' = (next_ :> get_children(next_)) @@ [children EXCEPT ![from] = Tail(@)]
    /\ current' = next_
    /\ UNCHANGED sweep

\* One pass of the body of "while True".
forward_sweep_loop ==
    /\ sweep.class = "frame"
    /\ sweep.at = "loop"
    /\ applied' = Append(applied, current)
    /\ IF children[current] # <<>>
       THEN visit(Head(children[current]), current)
       ELSE IF current \notin DOMAIN parent
       THEN /\ sweep' = KeyError(current)
            /\ UNCHANGED <<current, parent, children>>
       ELSE IF children[parent[current]] # <<>>
       THEN visit(Head(children[parent[current]]), parent[current])
       ELSE /\ current' = parent[current]
            /\ sweep' = [class |-> "frame",
                         at |-> IF parent[current] = root THEN "returned" ELSE "loop"]
            /\ UNCHANGED <<parent, children>>
    /\ UNCHANGED tree
    /\ UNCHANGED <<filter_vars, codec_vars, url_vars, conversion_vars>>
    /\ UnchangedExport

SweepInit ==
    /\ scenario_alternative_table = <<>>
    /\ parameter_value_table = <<>>
    /\ parameter_value_sq_maker = 0
    /\ alternative_sq_maker = 0
    /\ scenario_sq_maker = 0
    /\ scenario_alternative_sq_maker = 0
    /\ states = <<>>
    /\ result = NoResult
    /\ fetched = NothingFetched
    /\ value_object = None
    /\ database_value = None
    /\ decoded_value = None
    /\ original_url = <<>>
    /\ current_url = <<>>
    /\ calls = <<>>
    /\ popped = None
    /\ conversions = <<>>
    /\ tree \in Trees
    /\ current = 0
    /\ parent = <<>>
    /\ children = <<>>
    /\ applied = <<>>
    /\ sweep = [class |-> "frame", at |-> "not called"]
    /\ NothingExported

SweepNext ==
    \/ call_forward_sweep
    \/ forward_sweep_loop

SweepSpec == SweepInit /\ [][SweepNext]_vars

-----------------------------------------------------------------------------
(* Export mappings (export_mapping/settings.py).  An ExportMapping object   *)
(* has a class, a position and a child; the objects made so far are kept by *)
(* id, and child 0 is None.  A mapping is the chain from its root.          *)

Position_hidden == [class |-> "Position", name |-> "hidden"]

\* cls(position): the objects with a new one at the end, its child None.
new(objects, cls, position) ==
    Append(objects, [class |-> cls, position |-> position, child |-> 0])

\* ExportMapping.flatten(): the ids from the given one down the chain.
RECURSIVE flatten(_, _)
flatten(objects, id) ==
    IF objects[id].child = 0 THEN <<id>>
    ELSE <<id>> \o flatten(objects, objects[id].child)

\* unflatten(mapping_list): each mapping becomes the child of the one before.
unflatten(objects, mapping_list) ==
    [id \in 1..Len(objects) |->
        IF \E i \in 1..Len(mapping_list) : mapping_list[i] = id
        THEN LET i == CHOOSE i \in 1..Len(mapping_list) : mapping_list[i] = id
             IN  [objects[id] EXCEPT
                     !.child = IF i < Len(mapping_list) THEN mapping_list[i + 1] ELSE 0]
        ELSE objects[id]]

\* zip(index_name_positions, index_positions) of _generate_parameter_value_mappings:
\* an IndexNameMapping and a ParameterValueIndexMapping for each pair.
RECURSIVE index_mappings(_, _, _)
index_mappings(objects, index_name_positions, index_positions) ==
    IF index_name_positions = <<>> \/ index_positions = <<>> THEN objects
    ELSE index_mappings(
             new(new(objects, "IndexNameMapping", Head(index_name_positions)),
                 "ParameterValueIndexMapping", Head(index_positions)),
             Tail(index_name_positions), Tail(index_positions))

\* The positions of the mappings above the alternative.
ClassPositions ==
    << <<"ObjectClassMapping", PyInt(0)>>, <<"ParameterDefinitionMapping", PyInt(1)>>,
       <<"ParameterValueListMapping", Position_hidden>>, <<"ObjectMapping", PyInt(2)>> >>

\* object_parameter_export(...) with _generate_parameter_value_mappings: the
\* objects in the order of the chain, each the child of the one before.
object_parameter_export(alternative_position, value_type_position, value_position, index_name_positions, index_positions) ==
    LET head == [i \in 1..Len(ClassPositions) |->
                    [class |-> ClassPositions[i][1], position |-> ClassPositions[i][2],
                     child |-> 0]]
        value_type == new(new(head, "AlternativeMapping", alternative_position),
                          "ParameterValueTypeMapping", value_type_position)
        made == IF index_positions = <<>>
                THEN new(value_type, "ParameterValueMapping", value_position)
                ELSE new(index_mappings(value_type, index_name_positions, index_positions),
                         "ExpandedParameterValueMapping", value_position)
    IN  [id \in 1..Len(made) |->
            [made[id] EXCEPT !.child = IF id < Len(made) THEN id + 1 ELSE 0]]

\* takewhile(lambda m: type(m) != index_name_mapping, mapping_list)
takewhile(objects, mapping_list, class) ==
    IF \E i \in 1..Len(mapping_list) : objects[mapping_list[i]].class = class
    THEN SubSeq(mapping_list, 1,
                (CHOOSE i \in 1..Len(mapping_list) :
                     /\ objects[mapping_list[i]].class = class
                     /\ \A j \in 1..(i - 1) : objects[mapping_list[j]].class # class) - 1)
    ELSE mapping_list

\* The objects with n IndexNameMapping and then n ParameterValueIndexMapping
\* objects, all hidden, made at the end.
RECURSIVE new_hidden(_, _, _)
new_hidden(objects, cls, n) ==
    IF n = 0 THEN objects ELSE new_hidden(new(objects, cls, Position_hidden), cls, n - 1)

\* [m for pair in zip(name_mappings, index_mappings) for m in pair], the
\* names having the ids first + 1 .. first + n and the indexes the n after.
pairs(first, n) ==
    [i \in 1..(2 * n) |-> IF i % 2 = 1 THEN first + (i + 1) \div 2 ELSE first + n + i \div 2]

\* mapping_list[:-k] + mapping_list[-1:]
but_last(mapping_list, k) ==
    SubSeq(mapping_list, 1, IF Len(mapping_list) > k THEN Len(mapping_list) - k ELSE 0)

\* _change_amount_of_dimensions where the removal keeps one mapping too many.
_change_amount_of_dimensions_keeping_one(objects, dimensions_, single_value_mapping, expanded_value_mapping, index_mapping, index_name_mapping) ==
    LET mapping_list == flatten(objects, 1)
        last == objects[mapping_list[Len(mapping_list)]]
    IN  IF dimensions_ = 0
        THEN IF last.class = expanded_value_mapping
             THEN unflatten(new(objects, single_value_mapping, last.position),
                            Append(takewhile(objects, mapping_list, index_name_mapping),
                                   Len(objects) + 1))
             ELSE objects
        ELSE LET replaced == last.class = single_value_mapping
                 objects1 == IF replaced
                             THEN new(objects, expanded_value_mapping, last.position)
                             ELSE objects
                 list1 == IF replaced
                          THEN Append(but_last(mapping_list, 1), Len(objects1))
                          ELSE mapping_list
                 existing_dimensions ==
                     Cardinality({i \in 1..Len(list1) :
                                     objects1[list1[i]].class = index_mapping})
                 n == dimensions_ - existing_dimensions
             IN  IF existing_dimensions < dimensions_
                 THEN unflatten(
                          new_hidden(new_hidden(objects1, index_name_mapping, n),
                                     index_mapping, n),
                          but_last(list1, 1) \o pairs(Len(objects1), n)
                              \o <<list1[Len(list1)]>>)
                 ELSE IF existing_dimensions > dimensions_
                 THEN unflatten(objects1,
                                but_last(list1, 2 * (existing_dimensions - dimensions_))
                                    \o <<list1[Len(list1)]>>)
                 ELSE objects1

\* _change_amount_of_dimensions(mapping, dimensions, ...): the objects after
\* the call, the root mapping being object 1.
_change_amount_of_dimensions(objects, dimensions_, single_value_mapping, expanded_value_mapping, index_mapping, index_name_mapping) ==
    LET mapping_list == flatten(objects, 1)
        last == objects[mapping_list[Len(mapping_list)]]
    IN  IF dimensions_ = 0
        THEN IF last.class = expanded_value_mapping
             THEN unflatten(new(objects, single_value_mapping, last.position),
                            Append(takewhile(objects, mapping_list, index_name_mapping),
                                   Len(objects) + 1))
             ELSE objects
        ELSE LET replaced == last.class = single_value_mapping
                 objects1 == IF replaced
                             THEN new(objects, expanded_value_mapping, last.position)
                             ELSE objects
                 list1 == IF replaced
                          THEN Append(but_last(mapping_list, 1), Len(objects1))
                          ELSE mapping_list
                 existing_dimensions ==
                     Cardinality({i \in 1..Len(list1) :
                                     objects1[list1[i]].class = index_mapping})
                 n == dimensions_ - existing_dimensions
             IN  IF existing_dimensions < dimensions_
                 THEN unflatten(
                          new_hidden(new_hidden(objects1, index_name_mapping, n),
                                     index_mapping, n),
                          but_last(list1, 1) \o pairs(Len(objects1), n)
                              \o <<list1[Len(list1)]>>)
                 ELSE IF existing_dimensions > dimensions_
                 THEN unflatten(objects1,
                                but_last(list1, 2 * (existing_dimensions - dimensions_) + 1)
                                    \o <<list1[Len(list1)]>>)
                 ELSE objects1

\* set_parameter_dimensions(mapping, dimensions)
set_parameter_dimensions(objects, dimensions_) ==
    _change_amount_of_dimensions(objects, dimensions_, "ParameterValueMapping",
                                 "ExpandedParameterValueMapping",
                                 "ParameterValueIndexMapping", "IndexNameMapping")

\* Positions of a value, and lists of positions of index names and indexes.
ValuePositions == {Position_hidden, PyInt(3)}

PositionLists == UNION {[1..n -> {PyInt(4)}] : n \in 0..MaxDimensions}

\* mapping = object_parameter_export(...)
call_object_parameter_export(value_position, index_name_positions, index_positions) ==
    /\ mappings = <<>>
    /\ mappings' = object_parameter_export(Position_hidden, Position_hidden, value_position,
                                           index_name_positions, index_positions)
    /\ UNCHANGED dimensions
    /\ UNCHANGED <<filter_vars, codec_vars, url_vars, conversion_vars>>
    /\ UnchangedSweep

\* set_parameter_dimensions(mapping, n)
call_set_parameter_dimensions(n) ==
    /\ mappings # <<>>
    /\ Len(dimensions) < MaxSettings
    /\ mappings' = set_parameter_dimensions(mappings, n)
    /\ dimensions' = Append(dimensions, n)
    /\ UNCHANGED <<filter_vars, codec_vars, url_vars, conversion_vars>>
    /\ UnchangedSweep

ExportInit ==
    /\ scenario_alternative_table = <<>>
    /\ parameter_value_table = <<>>
    /\ parameter_value_sq_maker = 0
    /\ alternative_sq_maker = 0
    /\ scenario_sq_maker = 0
    /\ scenario_alternative_sq_maker = 0
    /\ states = <<>>
    /\ result = NoResult
    /\ fetched = NothingFetched
    /\ value_object = None
    /\ database_value = None
    /\ decoded_value = None
    /\ original_url = <<>>
    /\ current_url = <<>>
    /\ calls = <<>>
    /\ popped = None
    /\ conversions = <<>>
    /\ NothingSwept
    /\ NothingExported

ExportNext ==
    \/ \E value_position \in ValuePositions :
           \E index_name_positions \in PositionLists, index_positions \in PositionLists :
               call_object_parameter_export(value_position, index_name_positions,
                                            index_positions)
    \/ \E n \in 0..MaxDimensions : call_set_parameter_dimensions(n)

ExportSpec == ExportInit /\ [][ExportNext]_vars

-----------------------------------------------------------------------------
(* Properties of the scenario filter.                                       *)

Installed == Len(states) > 0

\* The scenario of the last successful install.
InstalledScenario == states[Len(states)].scenario_id

\* The stored scenario alternative rows of a scenario.
ScenarioAlternativesOf(scenario_id) ==
    {sa \in Range(scenario_alternative_table) : sa.scenario_id = scenario_id}

Pair(row) == <<row.parameter_definition_id, row.entity_id>>

\* The stored parameter value rows of a pair whose alternative is in the scenario.
ValuesInScenario(pair, scenario_id) ==
    {row \in Range(parameter_value_table) :
        /\ Pair(row) = pair
        /\ \E sa \in ScenarioAlternativesOf(scenario_id) : sa.alternative_id = row.alternative_id}

\* The ranks under which the scenario supplies a value for the pair.
RanksOf(pair, scenario_id) ==
    {sa.rank : sa \in {x \in ScenarioAlternativesOf(scenario_id) :
                          \E row \in ValuesInScenario(pair, scenario_id) :
                              row.alternative_id = x.alternative_id}}

Max(S) == CHOOSE x \in S : \A y \in S : y <= x

\* C1: after a successful install for scenario S, for every
\* (parameter_definition_id, entity_id) pair with a stored value in an
\* alternative of S, the parameter value view holds exactly one row of the
\* pair, and its alternative has the largest rank among the scenario
\* alternatives of S that supply a value for the pair.
C1_HighestRankWins ==
    (Installed /\ fetched.view = "parameter_value") =>
        \A stored \in Range(parameter_value_table) :
            ValuesInScenario(Pair(stored), InstalledScenario) # {} =>
                LET of_pair == {row \in fetched.rows : Pair(row) = Pair(stored)}
                IN  /\ Cardinality(of_pair) = 1
                    /\ \A row \in of_pair :
                         \E sa \in ScenarioAlternativesOf(InstalledScenario) :
                            /\ sa.alternative_id = row.alternative_id
                            /\ sa.rank = Max(RanksOf(Pair(stored), InstalledScenario))

\* C1 witness: a fetched row won against a stored value of the same pair
\* whose alternative has a lower rank in the scenario.
C1_Witness ==
    /\ Installed
    /\ fetched.view = "parameter_value"
    /\ \E row \in fetched.rows :
         \E other \in ValuesInScenario(Pair(row), InstalledScenario) :
            /\ other.alternative_id # row.alternative_id
            /\ \A sa \in ScenarioAlternativesOf(InstalledScenario) :
                  sa.alternative_id = other.alternative_id =>
                      sa.rank < Max(RanksOf(Pair(row), InstalledScenario))

\* C2: after a successful install for scenario S, every row of the parameter
\* value view is a stored parameter value row whose alternative is one of
\* the alternatives of S, and a pair with no value in an alternative of S
\* has no row.
C2_OnlyScenarioValues ==
    (Installed /\ fetched.view = "parameter_value") =>
        /\ \A row \in fetched.rows :
             /\ row \in Range(parameter_value_table)
             /\ \E sa \in ScenarioAlternativesOf(InstalledScenario) :
                   sa.alternative_id = row.alternative_id
        /\ \A stored \in Range(parameter_value_table) :
             ValuesInScenario(Pair(stored), InstalledScenario) = {} =>
                 ~ \E row \in fetched.rows : Pair(row) = Pair(stored)

\* C2 witness: the view was fetched, holds a row, and leaves out a pair
\* whose only stored values are in alternatives outside the scenario.
C2_Witness ==
    /\ Installed
    /\ fetched.view = "parameter_value"
    /\ fetched.rows # {}
    /\ \E stored \in Range(parameter_value_table) :
         ValuesInScenario(Pair(stored), InstalledScenario) = {}

AllMakers == <<parameter_value_sq_maker, alternative_sq_maker, scenario_sq_maker,
               scenario_alternative_sq_maker>>

\* C3: a call that raises leaves the four makers as they were, and a call
\* that changes a maker sets all four to the makers of the state it
\* constructed: the four hooks are never overridden in part.
C3_AllOrNothing ==
    [][/\ (result'.status = "SpineDBAPIError" => AllMakers' = AllMakers)
       /\ (AllMakers' # AllMakers =>
              /\ result'.status = "ok"
              /\ Len(states') = Len(states) + 1
              /\ \A i \in 1..4 : AllMakers'[i] = Len(states'))
       /\ \A i \in 1..4 : AllMakers'[i] = AllMakers'[1]]_vars

\* C3 witness: an install failed after an earlier one succeeded, and the
\* four makers are still those of the earlier install.
C3_Witness ==
    /\ result.status = "SpineDBAPIError"
    /\ Len(states) = 1
    /\ \A i \in 1..4 : AllMakers[i] = 1

C9_IdentityViews ==
    Installed =>
        /\ fetched.view = "scenario" =>
             fetched.rows = {row \in ScenarioTable : row.id = InstalledScenario}
        /\ fetched.view = "scenario_alternative" =>
             fetched.rows = ScenarioAlternativesOf(InstalledScenario)
        /\ fetched.view = "alternative" =>
             fetched.rows = {row \in AlternativeTable :
                                \E sa \in ScenarioAlternativesOf(InstalledScenario) :
                                    sa.alternative_id = row.id}

\* C9 witness: the alternative view was fetched and is a non-empty proper
\* part of the alternative table.
C9_Witness ==
    /\ Installed
    /\ fetched.view = "alternative"
    /\ fetched.rows # {}
    /\ fetched.rows # AlternativeTable

\* The rows of the scenario view db_map serves that match the argument.
RowsMatching(scenario) ==
    {row \in _make_scenario_filtered_scenario_sq(states, db_map_scenario_sq) :
        IF scenario.is_str THEN row.name = scenario.name ELSE row.id = scenario.id}

\* C10: the install raises SpineDBAPIError exactly when the scenario view
\* has no row with the given name or id, with the message of the kind of
\* lookup made; otherwise the state holds the id of the row with the given
\* name, or the given id.
C10_ScenarioResolution ==
    /\ result.status = "SpineDBAPIError" =>
         /\ RowsMatching(result.scenario) = {}
         /\ result.message = IF result.scenario.is_str THEN "Scenario 'name' not found."
                                                       ELSE "Scenario id not found."
    /\ result.status = "ok" =>
         /\ \E row \in ScenarioTable :
               /\ IF result.scenario.is_str THEN row.name = result.scenario.name
                                            ELSE row.id = result.scenario.id
               /\ InstalledScenario = row.id
         /\ ~ result.scenario.is_str => InstalledScenario = result.scenario.id

\* C10 witness: an install by a name that no scenario has was refused.
C10_Witness ==
    /\ result.status = "SpineDBAPIError"
    /\ result.scenario.is_str
    /\ result.scenario.name = "S3"
    /\ Len(states) = 0

-----------------------------------------------------------------------------
(* Properties of the parameter value codec.                                 *)

\* C5: for every DateTime, naive or aware, and every Duration of one or more
\* steps, each a signed count of one or several units, to_database does not
\* fail and from_database of what it wrote returns a value equal to the
\* object written.
C5_LeafRoundTrip ==
    value_object.class \in {"DateTime", "Duration"} =>
        /\ database_value # None => ~IsRaised(database_value)
        /\ decoded_value # None =>
             /\ ~IsRaised(decoded_value)
             /\ value_eq(value_object, decoded_value)

\* C6: for every TimePattern and every TimeSeriesVariableResolution, whose
\* pattern strings or stamps need not be unique, from_database of what
\* to_database wrote returns a value equal to the object written, with as
\* many entries, the same indexes and values in the same order and the same
\* flags.  Stated for the float arrays, which to_database can always write.
C6_KeyedRoundTrip ==
    (/\ value_object.class \in {"TimePattern", "TimeSeriesVariableResolution"}
     /\ value_object.values.dtype = "float64") =>
        /\ database_value # None => ~IsRaised(database_value)
        /\ decoded_value # None =>
             /\ ~IsRaised(decoded_value)
             /\ value_eq(value_object, decoded_value)
             /\ decoded_value.indexes = value_object.indexes
             /\ decoded_value.values.items = value_object.values.items

\* C7: for every TimeSeriesFixedResolution with two or more values and one
\* or more resolution steps, from_database of what to_database wrote returns
\* a TimeSeriesFixedResolution with the same start, the same list of steps,
\* the same values and the same ignore_year and repeat.
C7_FixedResolutionRoundTrip ==
    value_object.class = "TimeSeriesFixedResolution" =>
        /\ database_value # None => ~IsRaised(database_value)
        /\ decoded_value # None =>
             /\ decoded_value.class = "TimeSeriesFixedResolution"
             /\ datetime_eq(decoded_value.start, value_object.start)
             /\ decoded_value.resolution = value_object.resolution
             /\ np_all_eq(decoded_value.values, value_object.values)
             /\ decoded_value.ignore_year = value_object.ignore_year
             /\ decoded_value.repeat = value_object.repeat

-----------------------------------------------------------------------------
(* Properties of the filter URL tools.                                      *)

\* The URL carries a filter entry in its query.
HasFilter(url) == dict_has(parse_qs(urlparse(url).query), FILTER_IDENTIFIER)

\* C8: for every URL without a filter entry and every config dict of a
\* registered filter type, pop_filter_configs of the URL that
\* append_filter_config returned gives exactly that config, and a URL
\* without a filter entry that has the scheme, location, path and other
\* query entries of the URL the caller started from.
C8_UrlRoundTrip ==
    (/\ Len(calls) = 2
     /\ calls[1].function = "append_filter_config"
     /\ calls[1].config.class = "dict"
     /\ calls[2].function = "pop_filter_configs"
     /\ ~HasFilter(original_url)) =>
        /\ ~IsRaised(popped)
        /\ popped.configs = <<calls[1].config>>
        /\ ~HasFilter(popped.url)
        /\ urlparse(popped.url).scheme = urlparse(original_url).scheme
        /\ urlparse(popped.url).netloc = urlparse(original_url).netloc
        /\ urlparse(popped.url).path = urlparse(original_url).path
        /\ parse_qs(urlparse(popped.url).query) = parse_qs(urlparse(original_url).query)

\* The (key, value) pairs the fields of the URL's query spell, decoded, a
\* blank value included.
Fields(url) ==
    With(urlparse(url).query, LAMBDA query :
    With(SelectSeq(IF query = <<>> THEN <<>> ELSE split(query, "&"),
                   LAMBDA field : field # <<>>), LAMBDA fields :
        [i \in 1..Len(fields) |->
            With(partition(fields[i], "="), LAMBDA nv :
                <<unquote(replace(nv.head, "+", " ")), unquote(replace(nv.tail, "+", " "))>>)]))

\* The filter entries of the URL, in order.
FilterEntries(url) ==
    With(SelectSeq(Fields(url), LAMBDA field : field[1] = FILTER_IDENTIFIER), LAMBDA fields :
        [i \in 1..Len(fields) |-> fields[i][2]])

\* The values of the key among the fields, in order.
ValuesOf(fields, key) ==
    With(SelectSeq(fields, LAMBDA field : field[1] = key), LAMBDA of_key :
        [j \in 1..Len(of_key) |-> of_key[j][2]])

\* The query keys of the URL other than the filter's, each with its values
\* in order.
OtherEntries(url) ==
    With(SelectSeq(Fields(url), LAMBDA field : field[1] # FILTER_IDENTIFIER), LAMBDA fields :
        {<<fields[i][1], ValuesOf(fields, fields[i][1])>> : i \in 1..Len(fields)})

\* The entry a config is appended as: a path as it is, a scenario filter
\* dict as cfg:scenario:<name>.
EntryOf(config) ==
    IF config.class = "dict"
    THEN SHORTHAND_TAG \o SCENARIO_SHORTHAND_TAG \o <<":">> \o config.scenario
    ELSE config.chars

\* The step is a call of append_filter_config.
IsAppend ==
    /\ Len(calls') = Len(calls) + 1
    /\ calls'[Len(calls')].function = "append_filter_config"

\* C20: append_filter_config of a URL that carries k filter entries returns
\* a URL that carries k+1: the k it had, unchanged and in their order, and
\* then the new one, which is the config itself when that is a string and its
\* 'cfg:' shorthand when it is a dict.  Every other query key of the URL
\* keeps its values.
C20_AppendStacks ==
    [][IsAppend =>
          /\ FilterEntries(current_url')
                 = Append(FilterEntries(current_url), EntryOf(calls'[Len(calls')].config))
          /\ OtherEntries(current_url') = OtherEntries(current_url)]_vars

\* The filter entry is a shorthand of the scenario filter.
IsScenarioShorthand(entry) == startswith(entry, SHORTHAND_TAG \o SCENARIO_SHORTHAND_TAG \o <<":">>)

\* The filter entry is a shorthand whose tag no filter has.
IsUnknownShorthand(entry) == startswith(entry, SHORTHAND_TAG) /\ ~IsScenarioShorthand(entry)

\* The config a filter entry stands for: the dict of a shorthand, and the
\* entry itself when it is the path of a config file.
ConfigOf(entry) ==
    IF IsScenarioShorthand(entry)
    THEN scenario_filter_config(
             SubSeq(entry, Len(SHORTHAND_TAG \o SCENARIO_SHORTHAND_TAG) + 2, Len(entry)))
    ELSE Str(entry)

\* The step is a call of pop_filter_configs.
IsPop ==
    /\ Len(calls') = Len(calls) + 1
    /\ calls'[Len(calls')].function = "pop_filter_configs"

\* The step is a call of clear_filter_configs.
IsClear ==
    /\ Len(calls') = Len(calls) + 1
    /\ calls'[Len(calls')].function = "clear_filter_configs"

\* C21: pop_filter_configs of a URL whose filter entries all have a config
\* returns one config for every filter entry, in the order of the entries, a
\* shorthand as the dict it stands for, and a URL that carries no filter
\* entry and has every other query key with its values; of a URL without
\* filter entries it returns no config and the URL as it is.
C21_PopRemovesAll ==
    [][(/\ IsPop
        /\ \A i \in 1..Len(FilterEntries(current_url)) :
               ~IsUnknownShorthand(FilterEntries(current_url)[i])) =>
          /\ ~IsRaised(popped')
          /\ popped'.configs = [i \in 1..Len(FilterEntries(current_url)) |->
                                   ConfigOf(FilterEntries(current_url)[i])]
          /\ current_url' = popped'.url
          /\ FilterEntries(current_url') = <<>>
          /\ OtherEntries(current_url') = OtherEntries(current_url)
          /\ FilterEntries(current_url) = <<>> => current_url' = current_url]_vars

\* C22: clear_filter_configs returns a URL that carries no filter entry and
\* has every other query key with its values, whatever the filter entries
\* are; a URL without filter entries is returned as it is, and clearing the
\* returned URL once more returns it as it is.  pop_filter_configs of a URL
\* with a shorthand of an unknown tag raises KeyError.
C22_ClearRemovesAll ==
    [][/\ IsClear =>
             /\ FilterEntries(current_url') = <<>>
             /\ OtherEntries(current_url') = OtherEntries(current_url)
             /\ FilterEntries(current_url) = <<>> => current_url' = current_url
             /\ clear_filter_configs(current_url') = current_url'
       /\ (/\ IsPop
           /\ \E i \in 1..Len(FilterEntries(current_url)) :
                  IsUnknownShorthand(FilterEntries(current_url)[i])) =>
             /\ IsRaised(popped')
             /\ popped'.exception = "KeyError"]_vars

-----------------------------------------------------------------------------
(* Properties of the duration and time stamp functions.                     *)

\* The step of the cyclic sequence r_0, r_1, ..., r_(n-1), r_0, ... at j.
CyclicStep(steps, j) == steps[((j - 1) % Len(steps)) + 1]

\* C12: indexes of a TimeSeriesFixedResolution with start t0, steps
\* r_0..r_(n-1) and k values has exactly k stamps, stamp 0 is t0 and stamp i
\* is t0 plus the sum of the first i steps of the cyclic sequence of steps.
C12_FixedResolutionStamps ==
    \A c \in 1..Len(conversions) :
        conversions[c].function = "indexes" =>
            /\ Len(conversions[c].returned) = Len(conversions[c].argument.values.items)
            /\ conversions[c].returned[1] = np_datetime64(conversions[c].argument.start)
            /\ \A i \in 1..(Len(conversions[c].returned) - 1) :
                   conversions[c].returned[i + 1] =
                       np_datetime64(datetime_add(
                           conversions[c].argument.start,
                           relativedelta_sum(
                               [j \in 1..i |->
                                   CyclicStep(conversions[c].argument.resolution, j)])))

\* The stamps of 2019-01-31 with steps of one day and one month were read,
\* into the second cycle of the steps.
C12_Witness ==
    /\ conversions # <<>>
    /\ conversions[1].function = "indexes"
    /\ conversions[1].argument.start.date = <<2019, 1, 31>>
    /\ conversions[1].argument.resolution
           = <<relativedelta(0, 0, 1, 0, 0, 0), relativedelta(0, 1, 0, 0, 0, 0)>>
    /\ conversions[1].returned
           = <<datetime64(<<2019, 1, 31>>, <<0, 0, 0>>), datetime64(<<2019, 2, 1>>, <<0, 0, 0>>),
               datetime64(<<2019, 3, 1>>, <<0, 0, 0>>), datetime64(<<2019, 3, 2>>, <<0, 0, 0>>)>>

\* The step a count of a unit token is.
StepOf(n, token) ==
    IF token \in {<<"s">>, <<"s", "e", "c", "o", "n", "d">>, <<"s", "e", "c", "o", "n", "d", "s">>}
    THEN relativedelta(0, 0, 0, 0, 0, n)
    ELSE IF token \in {<<"m">>, <<"m", "i", "n", "u", "t", "e">>,
                       <<"m", "i", "n", "u", "t", "e", "s">>}
    THEN relativedelta(0, 0, 0, 0, n, 0)
    ELSE IF token \in {<<"h">>, <<"h", "o", "u", "r">>, <<"h", "o", "u", "r", "s">>}
    THEN relativedelta(0, 0, 0, n, 0, 0)
    ELSE IF token \in {<<"D">>, <<"d", "a", "y">>, <<"d", "a", "y", "s">>}
    THEN relativedelta(0, 0, n, 0, 0, 0)
    ELSE IF token \in {<<"M">>, <<"m", "o", "n", "t", "h">>, <<"m", "o", "n", "t", "h", "s">>}
    THEN relativedelta(0, n, 0, 0, 0, 0)
    ELSE relativedelta(n, 0, 0, 0, 0, 0)

\* The counts that are signed integers.
SignedIntegers == Counts \ {<<>>, <<"1", ".", "5">>}

\* The ways to read a text as a signed integer, optional white space and a
\* unit token that is the rest of the text.
Readings(text) ==
    {reading \in SignedIntegers \X {<<>>, <<" ">>} \X UnitTokens :
        text.chars = reading[1] \o reading[2] \o reading[3]}

\* C16: duration_to_relativedelta(text) succeeds exactly when text is a
\* signed integer, optional white space and a unit token that is the whole
\* rest of the text, and then returns the count in the unit of the token;
\* for every other text it raises ParameterValueFormatError.
C16_DurationSyntax ==
    \A c \in 1..Len(conversions) :
        (/\ conversions[c].function = "duration_to_relativedelta"
         /\ conversions[c].argument \in DurationTexts) =>
            IF Readings(conversions[c].argument) = {}
            THEN /\ IsRaised(conversions[c].returned)
                 /\ conversions[c].returned.exception = "ParameterValueFormatError"
            ELSE \E reading \in Readings(conversions[c].argument) :
                     conversions[c].returned = StepOf(ParseInt(reading[1]), reading[3])

\* The step is entirely zero.
IsZero(delta) ==
    /\ delta.years = 0 /\ delta.months = 0 /\ delta.days = 0
    /\ delta.hours = 0 /\ delta.minutes = 0 /\ delta.seconds = 0

\* The text of a step in its smallest unit with a non-zero amount, the
\* larger units of the step folded into the count.
SmallestUnitText(delta) ==
    IF delta.seconds # 0
    THEN IntToString(delta.seconds + 60 * delta.minutes + 3600 * delta.hours
                     + 86400 * delta.days) \o <<"s">>
    ELSE IF delta.minutes # 0
    THEN IntToString(delta.minutes + 60 * delta.hours + 1440 * delta.days) \o <<"m">>
    ELSE IF delta.hours # 0
    THEN IntToString(delta.hours + 24 * delta.days) \o <<"h">>
    ELSE IF delta.days # 0
    THEN IntToString(delta.days) \o <<"D">>
    ELSE IF delta.months # 0
    THEN IntToString(delta.months + 12 * delta.years) \o <<"M">>
    ELSE IntToString(delta.years) \o <<"Y">>

\* C17: relativedelta_to_duration(delta) returns the count and abbreviation
\* of the smallest unit with a non-zero amount in delta, the larger units
\* folded into the count, and raises ParameterValueFormatError if and only
\* if delta is entirely zero.
C17_SmallestUnit ==
    \A c \in 1..Len(conversions) :
        conversions[c].function = "relativedelta_to_duration" =>
            IF IsZero(conversions[c].argument)
            THEN /\ IsRaised(conversions[c].returned)
                 /\ conversions[c].returned.exception = "ParameterValueFormatError"
            ELSE conversions[c].returned = Str(SmallestUnitText(conversions[c].argument))

\* The counts that are positive integers written without a sign.
PositiveIntegers == SignedIntegers \ {<<"-", "3">>, <<"+", "2">>, <<"0">>}

\* The abbreviation of a word or of its plural.
AbbreviationOf(token) ==
    IF token[1] = "s" THEN <<"s">>
    ELSE IF token[1] = "h" THEN <<"h">>
    ELSE IF token[1] = "d" THEN <<"D">>
    ELSE IF token[1] = "y" THEN <<"Y">>
    ELSE IF token[2] = "i" THEN <<"m">>
    ELSE <<"M">>

\* The text is a positive count and an abbreviation.
IsCanonical(text) ==
    \E count \in PositiveIntegers, unit \in Abbreviations : text.chars = count \o unit

\* A text and the duration written for the step it parses to.
ParsedAndFormatted(c) ==
    /\ c + 1 <= Len(conversions)
    /\ conversions[c].function = "duration_to_relativedelta"
    /\ IsCanonical(conversions[c].argument)
    /\ conversions[c + 1].function = "relativedelta_to_duration"

\* The full words of a unit, with white space after the count, parse to
\* the step of the abbreviation.
WordsParseAsAbbreviations ==
    \A c \in 1..Len(conversions) :
        conversions[c].function = "duration_to_relativedelta" =>
            \A count \in PositiveIntegers, token \in UnitTokens \ Abbreviations :
                conversions[c].argument = Str(count \o <<" ">> \o token) =>
                    conversions[c].returned
                        = duration_to_relativedelta(Str(count \o AbbreviationOf(token)))

\* C18 as stated: for every text of a positive count n and an abbreviation,
\* relativedelta_to_duration(duration_to_relativedelta(text)) is the text,
\* and the full words parse to the step of the abbreviation.
C18_ParseFormatInverse ==
    /\ \A c \in 1..Len(conversions) :
           ParsedAndFormatted(c) => conversions[c + 1].returned = conversions[c].argument
    /\ WordsParseAsAbbreviations

\* The count of the text fills whole units of the next larger unit, which
\* relativedelta carries it into: 60 seconds or minutes, 24 hours, 12 months.
IsCarried(text) ==
    \E count \in PositiveIntegers :
        \/ /\ text.chars \in {count \o <<"s">>, count \o <<"m">>}
           /\ ParseInt(count) % 60 = 0
        \/ /\ text.chars = count \o <<"h">>
           /\ ParseInt(count) % 24 = 0
        \/ /\ text.chars = count \o <<"M">>
           /\ ParseInt(count) % 12 = 0

\* C18: for every text of a positive count n and an abbreviation,
\* relativedelta_to_duration(duration_to_relativedelta(text)) is the text
\* unless n is a multiple of 60 seconds or minutes, of 24 hours or of 12
\* months; then it is another text, in a larger unit, that parses to the
\* same step.  The full words parse to the step of the abbreviation.
C18_CanonicalInverse ==
    /\ \A c \in 1..Len(conversions) :
           ParsedAndFormatted(c) =>
               /\ ~IsRaised(conversions[c + 1].returned)
               /\ conversions[c + 1].returned = conversions[c].argument
                      <=> ~IsCarried(conversions[c].argument)
               /\ duration_to_relativedelta(conversions[c + 1].returned)
                      = conversions[c].returned
    /\ WordsParseAsAbbreviations

\* "60s" was parsed and the step written as "1m".
C18_Witness ==
    /\ Len(conversions) = 2
    /\ ParsedAndFormatted(1)
    /\ conversions[1].argument = Str(<<"6", "0", "s">>)
    /\ conversions[2].returned = Str(<<"1", "m">>)

-----------------------------------------------------------------------------
(* Properties of reading.                                                   *)

\* The document read is an object of the given type that has data.
IsDocument(type) ==
    /\ database_value.class = "dict"
    /\ dict_has(database_value, "type")
    /\ dict_get(database_value, "type") = Text(type)
    /\ dict_has(database_value, "data")

\* The document read is a time series whose data is a list of numbers.
IsSingleColumn ==
    /\ IsDocument("time_series")
    /\ dict_get(database_value, "data").class = "list"
    /\ dict_get(database_value, "data").items # <<>>
    /\ dict_get(database_value, "data").items[1].class \in {"int", "float"}

\* The index of the document read has the key.
IndexHas(key) ==
    /\ dict_has(database_value, "index")
    /\ dict_has(dict_get(database_value, "index"), key)

\* The flag the index gives, and without one, whether there is no start.
FlagOrDefault(key) ==
    IF IndexHas(key) THEN dict_get(dict_get(database_value, "index"), key).b
    ELSE ~IndexHas("start")

\* C11: a fixed-resolution time series read from a document has the
\* ignore_year and the repeat its index gives; a flag the index does not
\* give is true when the index has no start (or there is no index) and false
\* when it has one, each flag on its own.
C11_FixedResolutionDefaults ==
    (IsSingleColumn /\ decoded_value # None /\ ~IsRaised(decoded_value))
        => /\ decoded_value.class = "TimeSeriesFixedResolution"
           /\ decoded_value.ignore_year = FlagOrDefault("ignore_year")
           /\ decoded_value.repeat = FlagOrDefault("repeat")

\* An index without start that gives repeat as false only: the series read
\* ignores the year and does not repeat.
C11_Witness ==
    /\ IsSingleColumn
    /\ ~IndexHas("start") /\ ~IndexHas("ignore_year") /\ IndexHas("repeat")
    /\ decoded_value # None /\ ~IsRaised(decoded_value)
    /\ decoded_value.ignore_year /\ ~decoded_value.repeat

\* The type tags from_database knows.
KnownTypes == {Text("date_time"), Text("duration"), Text("time_pattern"), Text("time_series")}

\* from_database raised a ParameterValueFormatError whose message names this.
RaisedNaming(name) ==
    /\ IsRaised(decoded_value)
    /\ decoded_value.exception = "ParameterValueFormatError"
    /\ decoded_value.names = name

\* C14: from_database of a JSON object whose type is none of the known tags
\* raises ParameterValueFormatError naming that type; of an object without
\* 'type' it raises ParameterValueFormatError naming 'type', and of an object
\* of a known type without 'data' one naming 'data'.  No value is returned.
C14_UnknownTypeOrMissingKey ==
    (database_value.class = "dict" /\ decoded_value # None) =>
        /\ ~dict_has(database_value, "type") => RaisedNaming("type")
        /\ (/\ dict_has(database_value, "type")
            /\ dict_get(database_value, "type") \notin KnownTypes)
               => RaisedNaming(dict_get(database_value, "type"))
        /\ (/\ dict_has(database_value, "type")
            /\ dict_get(database_value, "type") \in KnownTypes
            /\ ~dict_has(database_value, "data"))
               => RaisedNaming("data")

\* A time series object without data was read: the error names 'data'.
C14_Witness ==
    /\ database_value.class = "dict"
    /\ dict_has(database_value, "type")
    /\ dict_get(database_value, "type") = Text("time_series")
    /\ ~dict_has(database_value, "data")
    /\ decoded_value # None
    /\ RaisedNaming("data")

\* The document read is a time series whose data is a list of lists.
IsTwoColumn ==
    /\ IsDocument("time_series")
    /\ dict_get(database_value, "data").class = "list"
    /\ dict_get(database_value, "data").items # <<>>
    /\ dict_get(database_value, "data").items[1].class = "list"

\* What stands for a timestamp is none: a text that is no date, or a number.
IsMalformedStamp(stamp) == stamp \in BadStamps \cup NumberStamps

\* What stands for a duration, or one of a list of durations, is none.
HasMalformedDuration(durations) ==
    \/ durations \in BadDurations
    \/ /\ durations.class = "list"
       /\ \E i \in 1..Len(durations.items) : durations.items[i] \in BadDurations

\* An entry of a two column time series that is not a stamp and a number.
IsMalformedEntry(entry) ==
    \/ entry.class # "list"
    \/ Len(entry.items) # 2
    \/ IsMalformedStamp(entry.items[1])

\* The text read is not JSON, or a timestamp, a duration or an entry of the
\* document read is malformed.
IsCorrupt ==
    \/ database_value.class = "not json"
    \/ IsDocument("date_time") /\ IsMalformedStamp(dict_get(database_value, "data"))
    \/ IsDocument("duration") /\ HasMalformedDuration(dict_get(database_value, "data"))
    \/ /\ IsDocument("time_series")
       /\ dict_get(database_value, "data").class = "dict"
       /\ \E i \in 1..Len(dict_get(database_value, "data").items) :
             IsMalformedStamp(dict_get(database_value, "data").items[i][1])
    \/ /\ IsTwoColumn
       /\ \E i \in 1..Len(dict_get(database_value, "data").items) :
             IsMalformedEntry(dict_get(database_value, "data").items[i])
    \/ /\ IsSingleColumn
       /\ \/ /\ IndexHas("start")
             /\ IsMalformedStamp(dict_get(dict_get(database_value, "index"), "start"))
          \/ /\ IndexHas("resolution")
             /\ HasMalformedDuration(dict_get(dict_get(database_value, "index"), "resolution"))

\* C15: from_database of a text that is not JSON, and of a document with a
\* malformed timestamp (the data of a date_time, a stamp of a time series,
\* the start of a fixed resolution), a malformed duration (the data of a
\* duration, a resolution) or a two column entry that is not an array of two
\* elements, raises ParameterValueFormatError and nothing else; it returns no
\* value.
C15_OnlyFormatErrors ==
    (decoded_value # None /\ IsCorrupt) =>
        /\ IsRaised(decoded_value)
        /\ decoded_value.exception = "ParameterValueFormatError"

\* A duration of no magnitude as a document gives it: "0h", 0, or a list
\* with one of these in it.
HasZeroDuration(durations) ==
    \/ durations \in ZeroDurations
    \/ /\ durations.class = "list"
       /\ \E i \in 1..Len(durations.items) : durations.items[i] \in ZeroDurations

\* C19: from_database of a duration document whose data is of zero magnitude
\* ("0h", 0, a list with a zero step) raises ParameterValueFormatError, and a
\* Duration that from_database returns has one step or more, none of them
\* zero.
C19_NoZeroDuration ==
    decoded_value # None =>
        /\ (IsDocument("duration") /\ HasZeroDuration(dict_get(database_value, "data")))
               => /\ IsRaised(decoded_value)
                  /\ decoded_value.exception = "ParameterValueFormatError"
        /\ (~IsRaised(decoded_value) /\ decoded_value.class = "Duration")
               => /\ Len(decoded_value.value) >= 1
                  /\ \A i \in 1..Len(decoded_value.value) : ~IsZero(decoded_value.value[i])

\* The entries of the data of a map document: the items of a mapping, the
\* pairs of a list.
MapEntries(document) == dict_get(document, "data").items

\* C23: from_database of an object of type map with an index_type, whose
\* data is a mapping or a list of [index, value] pairs, returns a Map with
\* one index and one value for every entry of the data, in the order of the
\* data.
C23_MapDecoded ==
    (/\ IsDocument("map")
     /\ dict_has(database_value, "index_type")
     /\ decoded_value # None) =>
        /\ ~IsRaised(decoded_value)
        /\ decoded_value.class = "Map"
        /\ Len(decoded_value.indexes) = Len(MapEntries(database_value))
        /\ Len(decoded_value.values) = Len(MapEntries(database_value))

-----------------------------------------------------------------------------
(* Properties of writing.                                                   *)

\* The document written has an index object with the key.
WrittenIndexHas(key) ==
    /\ dict_has(database_value, "index")
    /\ dict_has(dict_get(database_value, "index"), key)

\* The document written has the flag in its index, with the value.
WrittenFlag(key, flag) ==
    /\ WrittenIndexHas(key)
    /\ dict_get(dict_get(database_value, "index"), key) = PyBool(flag)

\* C13: the document to_database writes for a TimeSeriesFixedResolution has
\* index.ignore_year and index.repeat, whatever their values; the document
\* it writes for a TimeSeriesVariableResolution has index.ignore_year if and
\* only if ignore_year is true, index.repeat if and only if repeat is true,
\* and no index at all when both are false.
C13_FlagsWritten ==
    (database_value # None /\ ~IsRaised(database_value)) =>
        /\ value_object.class = "TimeSeriesFixedResolution" =>
             /\ WrittenFlag("ignore_year", value_object.ignore_year)
             /\ WrittenFlag("repeat", value_object.repeat)
        /\ value_object.class = "TimeSeriesVariableResolution" =>
             /\ WrittenIndexHas("ignore_year") <=> value_object.ignore_year
             /\ WrittenIndexHas("repeat") <=> value_object.repeat
             /\ value_object.ignore_year => WrittenFlag("ignore_year", TRUE)
             /\ value_object.repeat => WrittenFlag("repeat", TRUE)
             /\ (~value_object.ignore_year /\ ~value_object.repeat)
                    => ~dict_has(database_value, "index")

\* A variable resolution series that repeats and does not ignore the year
\* was written with repeat alone in its index.
C13_Witness ==
    /\ value_object.class = "TimeSeriesVariableResolution"
    /\ value_object.repeat /\ ~value_object.ignore_year
    /\ database_value # None /\ ~IsRaised(database_value)
    /\ WrittenIndexHas("repeat") /\ ~WrittenIndexHas("ignore_year")

\* C24: a TimePattern holds its values as floats, also when it was made of
\* integers, and to_database writes for it what it writes for the
\* TimePattern of the equal floats.
C24_FloatValues ==
    value_object.class = "TimePattern" =>
        /\ value_object.values.dtype = "float64"
        /\ database_value # None =>
             /\ ~IsRaised(database_value)
             /\ database_value =
                    TimePattern_to_database(
                        TimePattern(value_object.indexes,
                                    ndarray("float64", value_object.values.items)))

-----------------------------------------------------------------------------
(* Properties of construction.                                              *)

\* C25: DateTime(d) of a DateTime d and Duration(d) of a Duration d do not
\* fail and construct a value equal to d.
C25_CopyConstruction ==
    \A c \in 1..Len(conversions) :
        conversions[c].function \in {"DateTime", "Duration"} =>
            /\ ~IsRaised(conversions[c].returned)
            /\ value_eq(conversions[c].returned, conversions[c].argument)

-----------------------------------------------------------------------------
(* Properties of the scenario filter's state and views.                     *)

\* The ids of the rows of the scenario in table scenario_alternative now.
CurrentScenarioAlternativeIds(scenario_id) ==
    LET rows == SelectSeq(scenario_alternative_table,
                          LAMBDA row : row.scenario_id = scenario_id)
    IN  [i \in 1..Len(rows) |-> rows[i].id]

\* C26: a _ScenarioFilterState stays as it was constructed: no query of an
\* installed view, no later install and no write to the database changes its
\* original subqueries, its scenario_id or its lists of ids.
C26_StateImmutable ==
    [][\A k \in 1..Len(states) : Len(states') >= k /\ states'[k] = states[k]]_vars

\* The scenario alternative view was queried after a row of the scenario
\* was added: the state still has the ids of the install.
C26_Witness ==
    /\ fetched.view = "scenario_alternative"
    /\ \E k \in 1..Len(states) :
           /\ scenario_alternative_sq_maker = k
           /\ states[k].scenario_alternative_ids
                  # CurrentScenarioAlternativeIds(states[k].scenario_id)

-----------------------------------------------------------------------------
(* Properties of the exceptions of from_database.                           *)

\* C27: from_database of a text that is JSON returns a value or raises
\* ParameterValueFormatError: no other exception leaves it, whatever the
\* document, a time series of no or one value, a time pattern of no entry
\* and a duration that is no string, integer or list included.
C27_ValueOrFormatError ==
    (decoded_value # None /\ database_value.class # "not json" /\ IsRaised(decoded_value))
        => decoded_value.exception = "ParameterValueFormatError"

-----------------------------------------------------------------------------
(* Properties of forward_sweep.                                             *)

\* C29: forward_sweep(root, func) on a finite tree, a root without children
\* included, raises nothing and applies func to no node twice; when it has
\* returned, func was applied to every node, to a parent before its
\* children.
C29_EveryNodeOnce ==
    /\ ~IsRaised(sweep)
    /\ \A i, j \in 1..Len(applied) : i # j => applied[i] # applied[j]
    /\ sweep.at = "returned" =>
           /\ Range(applied) = 1..Len(tree)
           /\ \A i, j \in 1..Len(applied) :
                  tree[applied[j]] = applied[i] => i < j

-----------------------------------------------------------------------------
(* Properties of the parameter dimensions of an export mapping.             *)

\* The classes of the flattened mapping, from the root.
FlattenedClasses ==
    LET mapping_list == flatten(mappings, 1)
    IN  [i \in 1..Len(mapping_list) |-> mappings[mapping_list[i]].class]

\* The value mapping at the end of the flattened mapping.
ValueMapping ==
    LET mapping_list == flatten(mappings, 1)
    IN  mappings[mapping_list[Len(mapping_list)]]

\* The value mapping object_parameter_export made: the first object of a
\* value class.
BuiltValueMapping ==
    mappings[CHOOSE id \in 1..Len(mappings) :
                 /\ mappings[id].class \in {"ParameterValueMapping",
                                            "ExpandedParameterValueMapping"}
                 /\ \A other \in 1..(id - 1) :
                        mappings[other].class \notin {"ParameterValueMapping",
                                                      "ExpandedParameterValueMapping"}]

\* C30: after set_parameter_dimensions(mapping, n) calls on a mapping of
\* object_parameter_export, n being that of the last call: the flattened
\* mapping has n ParameterValueIndexMapping items, each right after an
\* IndexNameMapping of its own; it ends with a ParameterValueMapping when n = 0 and
\* with an ExpandedParameterValueMapping otherwise, at the position the
\* value mapping was built with; and the six mappings from the object class
\* to the value type are the objects they were, as they were.
C30_ParameterDimensions ==
    dimensions # <<>> =>
        LET n == dimensions[Len(dimensions)]
            classes == FlattenedClasses
        IN  /\ Cardinality({i \in 1..Len(classes) :
                               classes[i] = "ParameterValueIndexMapping"}) = n
            /\ Cardinality({i \in 1..Len(classes) : classes[i] = "IndexNameMapping"}) = n
            /\ \A i \in 1..Len(classes) :
                   classes[i] = "ParameterValueIndexMapping" =>
                       i > 1 /\ classes[i - 1] = "IndexNameMapping"
            /\ classes[Len(classes)] = IF n = 0 THEN "ParameterValueMapping"
                                       ELSE "ExpandedParameterValueMapping"
            /\ ValueMapping.position = BuiltValueMapping.position
            /\ SubSeq(flatten(mappings, 1), 1, 6) = <<1, 2, 3, 4, 5, 6>>
            /\ \A id \in 1..6 :
                   /\ mappings[id].class =
                          object_parameter_export(Position_hidden, Position_hidden,
                                                  Position_hidden, <<>>, <<>>)[id].class
                   /\ mappings[id].position =
                          object_parameter_export(Position_hidden, Position_hidden,
                                                  Position_hidden, <<>>, <<>>)[id].position

\* Two dimensions were set and then one: an index name and an index were
\* removed, and the value is still at position 3.
C30_Witness ==
    /\ Len(dimensions) >= 2
    /\ dimensions[Len(dimensions) - 1] = 2
    /\ dimensions[Len(dimensions)] = 1
    /\ ValueMapping.position = PyInt(3)

====
